---- MODULE Spec2Model ----
(***************************************************************************)
(* DavinciMCP: the command interpretation pipeline (CommandRegistry,       *)
(* CommandExecutor, the built-in editing commands) and the tool-server     *)
(* gateway (MCPHandler, MCPClient), modelled as state machines.            *)
(*                                                                         *)
(* Python str values are TLA+ strings; Python dicts are functions whose    *)
(* domain is the set of keys present; None is the model value None.        *)
(***************************************************************************)
EXTENDS Integers, Sequences, FiniteSets, TLC

VARIABLES
    text,             \* matcher: the argument of match_nlp_intent
    match_result,     \* matcher: the value match_nlp_intent returned
    mpc,              \* matcher: "input" before the call, "done" after it
    history,          \* CommandExecutor.history
    feedback_enabled, \* CommandExecutor.feedback_enabled
    commands,         \* CommandRegistry.commands: id -> command object
    registrations,    \* the self.commands[id] = command statements run, in order
    lookup,           \* the last get_command call: [id, found], NoneDict before any
    timeline,         \* what resolve_controller.get_current_timeline() does
    last_result,      \* value returned by the last execute_from_text
    last_feedback,    \* value returned by the last get_last_feedback
    calls,            \* texts passed to execute_from_text, in call order
    execute_calls,    \* number of Command.execute invocations so far
    binding_calls,    \* number of calls made into the resolve_controller binding
    last_op,          \* the executor operation that ran last
    h_config,         \* MCPHandler: [enabled, script]: self.enabled, self.server_script
    server_process,   \* MCPHandler.server_process: 0 (None) or the subprocess held
    h_initialized,    \* MCPHandler.initialized
    proc,             \* the subprocesses: "unspawned", "running" or "exited"
    task,             \* the callers of the MCPHandler coroutines, see IdleTask
    c_config,         \* MCPClient: [enabled, anthropic]: self.enabled, self.anthropic is set
    c_initialized,    \* MCPClient.initialized
    exit_stack,       \* MCPClient.exit_stack: 0 (None) or the AsyncExitStack held
    session,          \* MCPClient.session: 0 (None) or the ClientSession held
    stacks,           \* the transport each AsyncExitStack created so far owns
    ctask,            \* the callers of the MCPClient coroutines, see IdleClientTask
    g_initialized,    \* GeminiAPIHandler.initialized
    generation_config, \* GeminiAPIHandler.generation_config (NoneDict: None)
    g_sent,           \* the calls made into the generative model, in order
    g_calls,          \* number of GeminiAPIHandler method calls so far
    g_last,           \* the last GeminiAPIHandler call: its arguments and return value
    loop_impl,        \* interactive loop: "cli" (run_interactive_mode) or "prompt" (run_interactive_session)
    loop_pc,          \* interactive loop: the input() it is blocked in, or "returned"
    exit_status,      \* interactive loop: the value returned (-1 while running)
    stdin_eof,        \* interactive loop: standard input has reached end-of-input
    reads,            \* interactive loop: number of input() calls that returned or raised
    last_read,        \* interactive loop: [at, got]: the last input() call and what it delivered
    ai_interpretation \* interactive loop: the suggestion awaiting confirmation (None: none)

execVars == <<history, feedback_enabled, commands, registrations, lookup, timeline,
              last_result, last_feedback, calls, execute_calls, binding_calls, last_op>>
matchVars == <<text, match_result, mpc>>
handlerVars == <<h_config, server_process, h_initialized, proc, task>>
clientVars == <<c_config, c_initialized, exit_stack, session, stacks, ctask>>
geminiVars == <<g_initialized, generation_config, g_sent, g_calls, g_last>>
loopVars == <<loop_impl, loop_pc, exit_status, stdin_eof, reads, last_read, ai_interpretation>>
vars == <<matchVars, execVars, handlerVars, clientVars, geminiVars, loopVars>>

\* None where a str is expected, and None where a dict is expected
None == "<None>"
NoneDict == [py_none |-> TRUE]

(***************************************************************************)
(* Bounds of the gateway model and the idle state of each component.       *)
(***************************************************************************)
MaxTasks == 2
MaxProcs == 2

\* the callers of the gateway coroutines; task 1 is the only caller of the
\* sequential specifications
Tasks == 1..MaxTasks
Procs == 1..MaxProcs

\* a caller between calls: pc is the await the call is suspended at, op/ret the
\* last call and what it returned, held the handle found on entry, waiting the
\* subprocess whose wait() is awaited, term/kill the terminate()/kill() calls
\* issued by the call, timed_out whether wait_for raised TimeoutError, raised
\* the step whose exception reached the except clause, overlapping whether the
\* call began while a stop_server of another caller was suspended
IdleTask ==
    [pc |-> "idle", op |-> "none", ret |-> "none", held |-> 0, waiting |-> 0,
     term |-> 0, kill |-> 0, timed_out |-> FALSE, raised |-> "none", overlapping |-> FALSE]

HandlerIdle ==
    /\ h_config = [enabled |-> FALSE, script |-> ""]
    /\ server_process = 0
    /\ h_initialized = FALSE
    /\ proc = [p \in Procs |-> "unspawned"]
    /\ task = [t \in Tasks |-> IdleTask]

MaxStacks == 2
StackIds == 1..MaxStacks

\* a caller of the client between calls: pc is the await the call is suspended
\* at, op/ret the last call and what it returned, was_initialized the flag on
\* entry, stack the AsyncExitStack the call created, closing the stack whose
\* aclose() is awaited, failed_at the step that raised, listed_tools whether
\* the call listed (and logged) the tools of the session, ready whether a
\* process_query call passed its two checks, requests the number of
\* messages.create calls it made, request_failed whether the request itself
\* failed, response the content of the message the hosted model returned
IdleClientTask ==
    [pc |-> "idle", op |-> "none", ret |-> "none", was_initialized |-> FALSE,
     stack |-> 0, closing |-> 0, failed_at |-> "none", listed_tools |-> FALSE,
     steps |-> <<>>, advertises_tools |-> FALSE,
     ready |-> FALSE, requests |-> 0, request_failed |-> FALSE, response |-> <<>>]

ClientIdle ==
    /\ c_config = [enabled |-> FALSE, anthropic |-> FALSE]
    /\ c_initialized = FALSE
    /\ exit_stack = 0
    /\ session = 0
    /\ stacks = [k \in StackIds |-> "unused"]
    /\ ctask = [t \in Tasks |-> IdleClientTask]

\* the adapter constructed without a credential and never called
GeminiIdle ==
    /\ g_initialized = FALSE
    /\ generation_config = NoneDict
    /\ g_sent = <<>>
    /\ g_calls = 0
    /\ g_last = [op |-> "none"]

\* no interactive loop was started
LoopIdle ==
    /\ loop_impl = "none"
    /\ loop_pc = "not started"
    /\ exit_status = -1
    /\ stdin_eof = FALSE
    /\ reads = 0
    /\ last_read = [at |-> "none", got |-> "none"]
    /\ ai_interpretation = None

(***************************************************************************)
(* Python str primitives used by the matcher.                              *)
(***************************************************************************)
UpperLetters == "ABCDEFGHIJKLMNOPQRSTUVWXYZ"
LowerLetters == "abcdefghijklmnopqrstuvwxyz"
Digits == "0123456789"

Char(s, i) == SubSeq(s, i, i)

\* c in s, for a one-character string c
CharIn(c, s) == \E k \in 1..Len(s) : Char(s, k) = c

IndexIn(c, s) == CHOOSE k \in 1..Len(s) : Char(s, k) = c

\* str.isspace for one character (the characters strip() and \s treat as space)
IsSpace(c) == c \in {" ", "\t", "\n", "\r"}

IsDigit(c) == CharIn(c, Digits)

\* the class [a-zA-Z0-9 ] of the marker-name pattern
IsNameChar(c) == CharIn(c, LowerLetters) \/ CharIn(c, UpperLetters) \/ IsDigit(c) \/ c = " "

LowerChar(c) == IF CharIn(c, UpperLetters) THEN Char(LowerLetters, IndexIn(c, UpperLetters)) ELSE c

UpperChar(c) == IF CharIn(c, LowerLetters) THEN Char(UpperLetters, IndexIn(c, LowerLetters)) ELSE c

RECURSIVE StrLower(_)
\* str.lower
StrLower(s) == IF s = "" THEN "" ELSE LowerChar(Char(s, 1)) \o StrLower(SubSeq(s, 2, Len(s)))

RECURSIVE LStrip(_)
LStrip(s) == IF s # "" /\ IsSpace(Char(s, 1)) THEN LStrip(SubSeq(s, 2, Len(s))) ELSE s

RECURSIVE RStrip(_)
RStrip(s) == IF s # "" /\ IsSpace(Char(s, Len(s))) THEN RStrip(SubSeq(s, 1, Len(s) - 1)) ELSE s

\* str.strip
StrStrip(s) == RStrip(LStrip(s))

\* str.capitalize
StrCapitalize(s) == IF s = "" THEN "" ELSE UpperChar(Char(s, 1)) \o StrLower(SubSeq(s, 2, Len(s)))

\* p == s[i:i+len(p)]  (1-based i)
MatchAt(p, s, i) == i + Len(p) - 1 <= Len(s) /\ SubSeq(s, i, i + Len(p) - 1) = p

\* the Python expression  p in s
StrContains(p, s) == \E i \in 1..(Len(s) - Len(p) + 1) : MatchAt(p, s, i)

(***************************************************************************)
(* CommandRegistry: the catalog and the trigger vocabulary.                *)
(***************************************************************************)
EmptyDict == [k \in {} |-> None]

\* mutant: the commands are tried in the reverse of the registration order
RegistrationOrderReversed == <<"marker", "transition", "cut">>

\* insertion order of the nlp_matchers dict built by _register_commands
RegistrationOrder == <<"cut", "transition", "marker">>

\* nlp_matchers: the trigger phrases of each command, in declaration order
nlp_matchers ==
    [cut |-> <<"cut", "split", "slice", "divide", "separate clip", "split clip", "cut clip">>,
     transition |-> <<"add transition", "transition", "dissolve", "cross dissolve", "fade", "wipe">>,
     marker |-> <<"add marker", "set marker", "create marker", "marker", "mark position">>]

\* self.commands after _register_commands: the first instance of each class
RegisteredCommands ==
    [cut |-> "CutCommand@1", transition |-> "AddTransitionCommand@1", marker |-> "SetMarkerCommand@1"]

\* mutant: the table lists fade before cross dissolve
transition_types_fade_first ==
    <<<<"fade", "Fade">>, <<"cross dissolve", "Cross Dissolve">>, <<"wipe", "Wipe">>,
      <<"push", "Push">>, <<"slide", "Slide">>>>

\* transition_types of _extract_params: (phrase, canonical name) in dict order
transition_types ==
    <<<<"cross dissolve", "Cross Dissolve">>, <<"fade", "Fade">>, <<"wipe", "Wipe">>,
      <<"push", "Push">>, <<"slide", "Slide">>>>

\* colors of _extract_params, in list order
colors == <<"blue", "green", "red", "yellow", "purple", "cyan", "magenta", "white", "black">>

\* mutant: only the first phrase of a list is tried
FirstContainedHeadOnly(seq, s, k) ==
    IF k > Len(seq) THEN 0
    ELSE IF StrContains(seq[k], s) THEN k
    ELSE 0

RECURSIVE FirstContained(_, _, _)
\* index of the first entry of the phrase list seq, from k on, that is in s; 0 if none
FirstContained(seq, s, k) ==
    IF k > Len(seq) THEN 0
    ELSE IF StrContains(seq[k], s) THEN k
    ELSE FirstContained(seq, s, k + 1)

RECURSIVE DigitRunEnd(_, _)
\* first index >= i of s that holds no digit (Len(s)+1 at the end)
DigitRunEnd(s, i) == IF i <= Len(s) /\ IsDigit(Char(s, i)) THEN DigitRunEnd(s, i + 1) ELSE i

RECURSIVE SpaceRunEnd(_, _)
SpaceRunEnd(s, i) == IF i <= Len(s) /\ IsSpace(Char(s, i)) THEN SpaceRunEnd(s, i + 1) ELSE i

RECURSIVE NameRunEnd(_, _)
NameRunEnd(s, i) == IF i <= Len(s) /\ IsNameChar(Char(s, i)) THEN NameRunEnd(s, i + 1) ELSE i

\* group(1) of (\d+(?:\.\d+)?)\s*(?:s|sec|second) matched at position i, or None
DurationMatchAt(s, i) ==
    LET j == DigitRunEnd(s, i)
        k == IF j + 1 <= Len(s) /\ Char(s, j) = "." /\ IsDigit(Char(s, j + 1))
             THEN DigitRunEnd(s, j + 1) ELSE j
        m == SpaceRunEnd(s, k)
    IN  IF j > i /\ m <= Len(s) /\ Char(s, m) = "s" THEN SubSeq(s, i, k - 1) ELSE None

RECURSIVE DurationSearch(_, _)
\* re.search: the match at the leftmost position
DurationSearch(s, i) ==
    IF i > Len(s) THEN None
    ELSE IF DurationMatchAt(s, i) # None THEN DurationMatchAt(s, i)
    ELSE DurationSearch(s, i + 1)

RECURSIVE StrToNat(_)
StrToNat(d) == IF d = "" THEN 0 ELSE 10 * StrToNat(SubSeq(d, 1, Len(d) - 1)) + (IndexIn(Char(d, Len(d)), Digits) - 1)

RECURSIVE Pow10(_)
Pow10(n) == IF n = 0 THEN 1 ELSE 10 * Pow10(n - 1)

RECURSIVE Gcd(_, _)
Gcd(a, b) == IF b = 0 THEN a ELSE Gcd(b, a % b)

\* float(d) for d = digits[.digits]: the number as a fraction in lowest terms
ParseFloat(d) ==
    LET j == DigitRunEnd(d, 1)
        fracLen == IF j <= Len(d) THEN Len(d) - j ELSE 0
        n == StrToNat(SubSeq(d, 1, j - 1)) * Pow10(fracLen) + StrToNat(SubSeq(d, j + 1, Len(d)))
        q == Pow10(fracLen)
        g == Gcd(n, q)
    IN  [num |-> n \div g, den |-> q \div g]

\* the capture of ['"]?([a-zA-Z0-9 ]+)['"]? tried at position w, or None
NameTailAt(s, w) ==
    IF w <= Len(s) /\ Char(s, w) \in {"'", "\""} /\ NameRunEnd(s, w + 1) > w + 1
    THEN SubSeq(s, w + 1, NameRunEnd(s, w + 1) - 1)
    ELSE IF NameRunEnd(s, w) > w THEN SubSeq(s, w, NameRunEnd(s, w) - 1)
    ELSE None

RECURSIVE NameAfterSpace(_, _, _)
\* \s+ is greedy: it first takes the whole run (ending before w) and gives
\* characters back, down to one, while the rest of the pattern fails
NameAfterSpace(s, a, w) ==
    IF w <= a THEN None
    ELSE IF NameTailAt(s, w) # None THEN NameTailAt(s, w)
    ELSE NameAfterSpace(s, a, w - 1)

NameKeywords == <<"named", "called", "name">>

RECURSIVE NameMatchAt(_, _, _)
\* group(1) of (?:named|called|name)\s+['"]?([a-zA-Z0-9 ]+)['"]? at position i,
\* trying the alternatives from the k-th on
NameMatchAt(s, i, k) ==
    IF k > Len(NameKeywords) THEN None
    ELSE LET a == i + Len(NameKeywords[k])
             r == IF MatchAt(NameKeywords[k], s, i) THEN NameAfterSpace(s, a, SpaceRunEnd(s, a)) ELSE None
         IN  IF r # None THEN r ELSE NameMatchAt(s, i, k + 1)

RECURSIVE NameSearch(_, _)
NameSearch(s, i) ==
    IF i > Len(s) THEN None
    ELSE IF NameMatchAt(s, i, 1) # None THEN NameMatchAt(s, i, 1)
    ELSE NameSearch(s, i + 1)

\* CommandRegistry._extract_params (s is the text match_nlp_intent normalized)
ExtractParams(command_id, s) ==
    IF command_id = "transition" THEN
        LET keys == [k \in 1..Len(transition_types) |-> transition_types[k][1]]
            t == FirstContained(keys, s, 1)
            d == DurationSearch(s, 1)
        IN  (IF t # 0 THEN "type" :> transition_types[t][2] ELSE EmptyDict)
            @@ (IF d # None THEN "duration" :> ParseFloat(d) ELSE EmptyDict)
    ELSE IF command_id = "marker" THEN
        LET n == NameSearch(s, 1)
            c == FirstContained(colors, s, 1)
        IN  (IF n # None THEN "name" :> StrStrip(n) ELSE EmptyDict)
            @@ (IF c # 0 THEN "color" :> StrCapitalize(colors[c]) ELSE EmptyDict)
    ELSE EmptyDict

RECURSIVE MatchCommands(_, _)
\* the loops of match_nlp_intent from the ci-th registered command on
MatchCommands(s, ci) ==
    IF ci > Len(RegistrationOrder) THEN NoneDict
    ELSE LET id == RegistrationOrder[ci]
         IN  IF FirstContained(nlp_matchers[id], s, 1) # 0
             THEN [command_id |-> id, params |-> ExtractParams(id, s)]
             ELSE MatchCommands(s, ci + 1)

\* text.lower().strip()
Normalize(t) == StrStrip(StrLower(t))

\* CommandRegistry.match_nlp_intent
MatchNlpIntent(t) == MatchCommands(Normalize(t), 1)

\* CommandRegistry.get_command, on the catalog cmds
GetCommand(cmds, command_id) == IF command_id \in DOMAIN cmds THEN cmds[command_id] ELSE None

(***************************************************************************)
(* Input texts: every concatenation of at most MaxWords tokens, and the    *)
(* texts the repository's tests use.                                       *)
(***************************************************************************)
MaxWords == 2

Tokens ==
    {"cut ", "SPLIT ", "add transition ", "Cross Dissolve ", "fade", "push ",
     "add a marker ", "Set Marker ", "named 'Scene 1' ", "called  \"", "red",
     " Blue ", " ", "\t", "2.5s ", "hello "}

TestTexts ==
    {"cut the clip at current position", "split this clip",
     "add a cross dissolve transition", "add a 2.5s fade transition",
     "add a marker named 'Scene 1'", "set a red marker",
     "do something completely different"}

RECURSIVE Compose(_)
Compose(n) == IF n = 0 THEN {""} ELSE Compose(n - 1) \cup {p \o t : p \in Compose(n - 1), t \in Tokens}

Texts == Compose(MaxWords) \cup TestTexts

(***************************************************************************)
(* The matcher on its own: one call of match_nlp_intent on one text.       *)
(***************************************************************************)
\* the assignments of _register_commands, in order
InitialRegistrations ==
    <<[id |-> "cut", command |-> "CutCommand@1"],
      [id |-> "transition", command |-> "AddTransitionCommand@1"],
      [id |-> "marker", command |-> "SetMarkerCommand@1"]>>

CatalogIdle ==
    /\ registrations = InitialRegistrations
    /\ lookup = NoneDict

ExecIdle ==
    /\ history = <<>>
    /\ feedback_enabled = TRUE
    /\ commands = RegisteredCommands
    /\ CatalogIdle
    /\ timeline = "present"
    /\ last_result = NoneDict
    /\ last_feedback = None
    /\ calls = <<>>
    /\ execute_calls = 0
    /\ binding_calls = 0
    /\ last_op = "none"

MatchIdle ==
    /\ text = ""
    /\ match_result = NoneDict
    /\ mpc = "idle"

InitMatch ==
    /\ GeminiIdle
    /\ LoopIdle
    /\ text \in Texts
    /\ match_result = NoneDict
    /\ mpc = "input"
    /\ ExecIdle
    /\ HandlerIdle
    /\ ClientIdle

\* registry.match_nlp_intent(text)
MatchIntent ==
    /\ mpc = "input"
    /\ match_result' = MatchNlpIntent(text)
    /\ mpc' = "done"
    /\ UNCHANGED <<text, execVars, handlerVars, clientVars, geminiVars, loopVars>>

NextMatch == MatchIntent

SpecMatch == InitMatch /\ [][NextMatch]_vars

(***************************************************************************)
(* The built-in commands (editing_commands.py).                            *)
(***************************************************************************)
\* dict.get(key, default)
DictGet(d, key, default) == IF key \in DOMAIN d THEN d[key] ELSE default

RECURSIVE NatToStr(_)
NatToStr(n) == IF n < 10 THEN Char(Digits, n + 1) ELSE NatToStr(n \div 10) \o Char(Digits, (n % 10) + 1)

RECURSIVE FracDigits(_, _)
\* the decimal digits of r/q (r < q, q a divisor of a power of ten, r # 0)
FracDigits(r, q) == IF r = 0 THEN "" ELSE Char(Digits, ((10 * r) \div q) + 1) \o FracDigits((10 * r) % q, q)

\* str(f) of a float holding num/den: always with a fractional part
FormatFloat(f) ==
    NatToStr(f.num \div f.den) \o "." \o
    (IF f.num % f.den = 0 THEN "0" ELSE FracDigits(f.num % f.den, f.den))

\* the message str(e) of the exception the binding raises when it fails
BindingError == "Resolve scripting API unavailable"

\* mutant: a missing timeline is not noticed
GuardedAbsentSucceeds(tl, success) ==
    IF tl = "raises" THEN [status |-> "error", message |-> BindingError]
    ELSE success

\* the try block shared by the three commands: tl is what get_current_timeline()
\* does ("present": returns a timeline, "absent": returns None, "raises")
Guarded(tl, success) ==
    IF tl = "raises" THEN [status |-> "error", message |-> BindingError]
    ELSE IF tl = "absent" THEN [status |-> "error", message |-> "No active timeline"]
    ELSE success

\* CutCommand.execute
CutExecute(params, tl) ==
    Guarded(tl, [status |-> "success", message |-> "Cut performed at playhead position"])

\* AddTransitionCommand.execute
TransitionExecute(params, tl) ==
    LET transition_type == DictGet(params, "type", "Cross Dissolve")
        duration == DictGet(params, "duration", [num |-> 1, den |-> 1])
    IN  Guarded(tl, [status |-> "success",
                     message |-> "Added " \o transition_type \o " transition",
                     transition_type |-> transition_type,
                     duration |-> duration])

\* SetMarkerCommand.execute
MarkerExecute(params, tl) ==
    LET marker_name == DictGet(params, "name", "Marker")
        marker_color == DictGet(params, "color", "Blue")
    IN  Guarded(tl, [status |-> "success",
                     message |-> "Added marker '" \o marker_name \o "'",
                     marker_name |-> marker_name,
                     marker_color |-> marker_color,
                     position |-> "00:00:00:00"])

\* the classes of editing_commands.py, and the instances of them a catalog
\* may hold
Classes == {"CutCommand", "AddTransitionCommand", "SetMarkerCommand"}
MaxInstances == 2
Commands == {c \o "@" \o NatToStr(n) : c \in Classes, n \in 1..MaxInstances}

\* type(command)
ClassOf == [command \in Commands |-> CHOOSE c \in Classes : MatchAt(c \o "@", command, 1)]

\* command.execute(params)
Execute(command, params, tl) ==
    IF ClassOf[command] = "CutCommand" THEN CutExecute(params, tl)
    ELSE IF ClassOf[command] = "AddTransitionCommand" THEN TransitionExecute(params, tl)
    ELSE MarkerExecute(params, tl)

\* CutCommand.get_feedback
CutFeedback(result) ==
    IF DictGet(result, "status", None) = "success"
    THEN "Cut performed at the current position"
    ELSE "Error performing cut: " \o DictGet(result, "message", "Unknown error")

\* AddTransitionCommand.get_feedback
TransitionFeedback(result) ==
    IF DictGet(result, "status", None) = "success"
    THEN "Added " \o DictGet(result, "transition_type", "transition") \o " with duration "
         \o (IF "duration" \in DOMAIN result THEN FormatFloat(result.duration) ELSE "1.0") \o "s"
    ELSE "Error adding transition: " \o DictGet(result, "message", "Unknown error")

\* SetMarkerCommand.get_feedback
MarkerFeedback(result) ==
    IF DictGet(result, "status", None) = "success"
    THEN "Added marker '" \o DictGet(result, "marker_name", "Marker") \o "' at "
         \o DictGet(result, "position", "current position")
    ELSE "Error adding marker: " \o DictGet(result, "message", "Unknown error")

\* command.get_feedback(result)
GetFeedback(command, result) ==
    IF ClassOf[command] = "CutCommand" THEN CutFeedback(result)
    ELSE IF ClassOf[command] = "AddTransitionCommand" THEN TransitionFeedback(result)
    ELSE MarkerFeedback(result)

(***************************************************************************)
(* CommandExecutor.                                                        *)
(***************************************************************************)
MaxCalls == 2

\* the texts submitted to the executor
ExecTexts ==
    {"cut the clip at current position", "add a 2.5s fade transition", "add transition",
     "add a marker named 'Scene 1'", "set a red marker",
     "do something completely different", "  "}

\* registry.match_nlp_intent(t) for the texts submitted (a pure function of t)
MatchOf == [t \in ExecTexts |-> MatchNlpIntent(t)]

\* mutant: the unmatched input is reported as a success
NoMatchResultSuccess(t) ==
    [status |-> "success", message |-> "Could not understand command", original_text |-> t]

\* the result of execute_from_text when the matcher returns None
NoMatchResult(t) ==
    [status |-> "error", message |-> "Could not understand command", original_text |-> t]

\* the result of execute_from_text when the catalog has no such command
NotFoundResult(command_id, t) ==
    [status |-> "error", message |-> "Command '" \o command_id \o "' not found", original_text |-> t]

\* mutant: the feedback is attached whatever the toggle says
AttachFeedbackAlways(enabled, command, result) ==
    ("feedback" :> GetFeedback(command, result)) @@ result

\* if self.feedback_enabled: result["feedback"] = command.get_feedback(result)
AttachFeedback(enabled, command, result) ==
    IF enabled THEN ("feedback" :> GetFeedback(command, result)) @@ result ELSE result

\* mutant: the entry is inserted at the front of the history
HistoryInsertFront(h, entry) == <<entry>> \o h

\* self.history.append(entry)
HistoryAppend(h, entry) == Append(h, entry)

InitExec ==
    /\ GeminiIdle
    /\ LoopIdle
    /\ MatchIdle
    /\ HandlerIdle
    /\ ClientIdle
    /\ history = <<>>
    /\ feedback_enabled \in BOOLEAN
    /\ commands = RegisteredCommands
    /\ CatalogIdle
    /\ timeline \in {"present", "absent", "raises"}
    /\ last_result = NoneDict
    /\ last_feedback = None
    /\ calls = <<>>
    /\ execute_calls = 0
    /\ binding_calls = 0
    /\ last_op = "none"

\* CommandExecutor.execute_from_text(t)
ExecuteFromText(t) ==
    /\ Len(calls) < MaxCalls
    /\ calls' = Append(calls, t)
    /\ last_op' = "execute_from_text"
    /\ last_feedback' = None
    /\ LET m == IF t \in ExecTexts THEN MatchOf[t] ELSE MatchNlpIntent(t)
       IN  IF m = NoneDict THEN
               /\ history' = HistoryAppend(history, NoMatchResult(t))
               /\ last_result' = NoMatchResult(t)
               /\ UNCHANGED <<execute_calls, binding_calls>>
           ELSE IF GetCommand(commands, m.command_id) = None THEN
               /\ history' = HistoryAppend(history, NotFoundResult(m.command_id, t))
               /\ last_result' = NotFoundResult(m.command_id, t)
               /\ UNCHANGED <<execute_calls, binding_calls>>
           ELSE
               LET command == GetCommand(commands, m.command_id)
                   result == AttachFeedback(feedback_enabled, command,
                                            Execute(command, m.params, timeline))
               IN  /\ history' = HistoryAppend(history,
                                     [command_id |-> m.command_id, params |-> m.params,
                                      result |-> result, original_text |-> t])
                   /\ last_result' = result
                   /\ execute_calls' = execute_calls + 1
                   /\ binding_calls' = binding_calls + 1
    /\ UNCHANGED <<feedback_enabled, commands, registrations, lookup, timeline,
                   matchVars, handlerVars, clientVars>>

\* mutant: the recomputation uses the generic text of the base class
LastFeedbackGeneric(h, cmds) ==
    IF h = <<>> THEN None
    ELSE LET last_command == h[Len(h)]
             result == DictGet(last_command, "result", EmptyDict)
             command_id == DictGet(last_command, "command_id", None)
         IN  IF "feedback" \in DOMAIN result THEN result.feedback
             ELSE IF command_id # None /\ GetCommand(cmds, command_id) # None
                  THEN "Command executed with result: " \o DictGet(result, "status", "")
                  ELSE None

\* CommandExecutor.get_last_feedback()
LastFeedback(h, cmds) ==
    IF h = <<>> THEN None
    ELSE LET last_command == h[Len(h)]
             result == DictGet(last_command, "result", EmptyDict)
             command_id == DictGet(last_command, "command_id", None)
         IN  IF "feedback" \in DOMAIN result THEN result.feedback
             ELSE IF command_id # None /\ GetCommand(cmds, command_id) # None
                  THEN GetFeedback(GetCommand(cmds, command_id), result)
                  ELSE None

\* mutant: the recomputed feedback is stored in the last history entry
GetLastFeedbackCaching ==
    /\ last_feedback' = LastFeedback(history, commands)
    /\ last_result' = NoneDict
    /\ last_op' = "get_last_feedback"
    /\ history' = IF history # <<>> /\ "result" \in DOMAIN history[Len(history)]
                     /\ LastFeedback(history, commands) # None
                  THEN [history EXCEPT ![Len(history)].result =
                            ("feedback" :> LastFeedback(history, commands)) @@ @]
                  ELSE history
    /\ UNCHANGED <<feedback_enabled, commands, registrations, lookup, timeline, calls,
                   execute_calls, binding_calls, matchVars, handlerVars, clientVars, geminiVars, loopVars>>

GetLastFeedback ==
    /\ last_feedback' = LastFeedback(history, commands)
    /\ last_result' = NoneDict
    /\ last_op' = "get_last_feedback"
    /\ UNCHANGED <<history, feedback_enabled, commands, registrations, lookup, timeline, calls,
                   execute_calls, binding_calls, matchVars, handlerVars, clientVars, geminiVars, loopVars>>

\* the editing application opens or closes its timeline, or its scripting API fails
SetTimeline(tl) ==
    /\ tl # timeline
    /\ timeline' = tl
    /\ last_op' = "environment"
    /\ last_result' = NoneDict
    /\ last_feedback' = None
    /\ UNCHANGED <<history, feedback_enabled, commands, registrations, lookup, calls, execute_calls,
                   binding_calls, matchVars, handlerVars, clientVars, geminiVars, loopVars>>

\* the catalog loses an entry the matcher still knows (an inconsistent registry:
\* get_command returns None for a matched id)
DropCommand(id) ==
    /\ id \in DOMAIN commands
    /\ commands' = [k \in DOMAIN commands \ {id} |-> commands[k]]
    /\ last_op' = "environment"
    /\ last_result' = NoneDict
    /\ last_feedback' = None
    /\ UNCHANGED <<history, feedback_enabled, registrations, lookup, timeline, calls, execute_calls,
                   binding_calls, matchVars, handlerVars, clientVars, geminiVars, loopVars>>

NextExec ==
    \/ \E t \in ExecTexts : ExecuteFromText(t) /\ UNCHANGED <<geminiVars, loopVars>>
    \/ GetLastFeedback
    \/ \E tl \in {"present", "absent", "raises"} : SetTimeline(tl)
    \/ \E id \in DOMAIN RegisteredCommands : DropCommand(id)

SpecExec == InitExec /\ [][NextExec]_vars

(***************************************************************************)
(* Properties of the executor (checked under SpecExec).                    *)
(***************************************************************************)
\* some trigger phrase of command c is a substring of s
HasPhraseOf(c, s) == \E k \in DOMAIN nlp_matchers[c] : StrContains(nlp_matchers[c][k], s)

\* no trigger phrase of any registered command is a substring of s
NoPhraseIn(s) == \A c \in {"cut", "transition", "marker"} : ~HasPhraseOf(c, s)

\* the submitted texts that contain no trigger phrase once normalized
UnmatchedTexts == {t \in ExecTexts : NoPhraseIn(Normalize(t))}

\* C1: every execute_from_text call that returns appends exactly one entry to
\* history; entries are in call order and no operation removes or reorders an
\* entry: after n calls history has n entries and the i-th entry carries the
\* i-th call's original text.
C1_HistoryInCallOrder ==
    /\ [](/\ Len(history) = Len(calls)
          /\ \A i \in 1..Len(history) : history[i].original_text = calls[i])
    /\ [][/\ Len(history') >= Len(history)
          /\ SubSeq(history', 1, Len(history)) = history
          /\ (calls' # calls => Len(history') = Len(history) + 1)
          /\ (calls' = calls => history' = history)]_vars

\* two calls were made: one executed a command, the next matched a command
\* the catalog does not hold
C1_Witness ==
    /\ Len(history) >= 2
    /\ "command_id" \in DOMAIN history[1]
    /\ "command_id" \notin DOMAIN history[2]
    /\ StrContains("not found", history[2].message)

\* C2: execute_from_text on an input the matcher does not match returns a
\* result with status "error", a message containing "Could not understand
\* command" and the original text, appends exactly one history entry with that
\* status, and invokes no command's execute (nothing reaches the binding).
C2_UnmatchedIsError ==
    [][(Len(calls') = Len(calls) + 1 /\ calls'[Len(calls')] \in UnmatchedTexts)
       => /\ last_result'.status = "error"
          /\ StrContains("Could not understand command", last_result'.message)
          /\ last_result'.original_text = calls'[Len(calls')]
          /\ Len(history') = Len(history) + 1
          /\ SubSeq(history', 1, Len(history)) = history
          /\ history'[Len(history')].status = "error"
          /\ history'[Len(history')] = last_result'
          /\ execute_calls' = execute_calls
          /\ binding_calls' = binding_calls]_vars

\* an unmatched, non-blank input has just been executed
C2_Witness ==
    /\ last_op = "execute_from_text"
    /\ calls # <<>>
    /\ calls[Len(calls)] \in UnmatchedTexts
    /\ StrStrip(calls[Len(calls)]) # ""
    /\ last_result.status = "error"

\* the result stored by a history entry (the entry itself when it has no
\* "result" key)
StoredResult(entry) == IF "result" \in DOMAIN entry THEN entry.result ELSE entry

\* C3 as stated: with feedback disabled execute_from_text never adds a feedback
\* key to what it returns or stores, and a later get_last_feedback() returns a
\* non-absent string.
C3_FeedbackRecomputedAlways ==
    ~feedback_enabled =>
        /\ \A i \in 1..Len(history) : "feedback" \notin DOMAIN StoredResult(history[i])
        /\ "feedback" \notin DOMAIN last_result
        /\ (last_op = "get_last_feedback" /\ history # <<>>) => last_feedback # None

\* C3 amended: with feedback disabled execute_from_text never adds a feedback
\* key to what it returns or stores; a later get_last_feedback() returns a
\* string recomputed from the stored result when the last input matched a
\* command that the catalog held at execution and holds at the query, and
\* returns absent when the last input was unmatched or its command is missing.
C3_FeedbackRecomputedWhenExecuted ==
    ~feedback_enabled =>
        /\ \A i \in 1..Len(history) : "feedback" \notin DOMAIN StoredResult(history[i])
        /\ "feedback" \notin DOMAIN last_result
        /\ (last_op = "get_last_feedback" /\ history # <<>>) =>
              LET e == history[Len(history)]
              IN  IF "command_id" \in DOMAIN e /\ e.command_id \in DOMAIN commands
                  THEN /\ last_feedback # None
                       /\ last_feedback = GetFeedback(commands[e.command_id], e.result)
                  ELSE last_feedback = None

\* feedback is disabled, a command was executed and its feedback was queried
C3_Witness ==
    /\ ~feedback_enabled
    /\ last_op = "get_last_feedback"
    /\ history # <<>>
    /\ "command_id" \in DOMAIN history[Len(history)]
    /\ last_feedback # None

\* an Execution Result: a status of success or error, and a non-empty
\* message when it is an error
ResultOk(r) ==
    /\ "status" \in DOMAIN r
    /\ r.status \in {"success", "error"}
    /\ r.status = "error" => ("message" \in DOMAIN r /\ r.message # "")

\* the value a command uses for a parameter: the extracted one, else the default
ParamUsed(params, key, default) == IF key \in DOMAIN params THEN params[key] ELSE default

C17_EntriesHaveFourAttributes ==
    \A i \in 1..Len(history) :
        {"command_id", "params", "result", "original_text"} \subseteq DOMAIN history[i]

\* C18: get_last_feedback() is a pure query: it returns the attached feedback
\* or recomputes it, never invokes execute, never appends to or alters the
\* history or a stored result, returns absent when the history is empty, and
\* returns the same value when called again with no execution in between.
C18_GetLastFeedbackIsPure ==
    [][last_op' = "get_last_feedback" =>
          /\ UNCHANGED <<history, commands, calls, execute_calls, binding_calls,
                         timeline, feedback_enabled>>
          /\ history = <<>> => last_feedback' = None
          /\ (history # <<>> /\ "feedback" \in DOMAIN StoredResult(history[Len(history)]))
                => last_feedback' = StoredResult(history[Len(history)]).feedback
          /\ last_op = "get_last_feedback" => last_feedback' = last_feedback]_vars

\* the feedback attached at execution was returned by the query
C18_Witness ==
    /\ last_op = "get_last_feedback"
    /\ feedback_enabled
    /\ execute_calls >= 1
    /\ Len(history) = execute_calls
    /\ last_feedback = history[Len(history)].result.feedback

\* the history entry execute_from_text(t) appends for a matched input whose
\* command the catalog holds, on an executor with the given feedback toggle
ExecutedEntry(enabled, t, cmds, tl) ==
    LET m == MatchOf[t]
        command == GetCommand(cmds, m.command_id)
    IN  [command_id |-> m.command_id, params |-> m.params,
         result |-> AttachFeedback(enabled, command, Execute(command, m.params, tl)),
         original_text |-> t]

\* C30: attached and recomputed feedback agree: get_last_feedback() called
\* right after an execute_from_text whose input matched a registered command
\* returns one and the same string, the one an executor with feedback enabled
\* and the one an executor with feedback disabled return for the same
\* catalog and binding state.
C30_AttachedEqualsRecomputed ==
    [][(/\ last_op = "execute_from_text"
        /\ last_op' = "get_last_feedback"
        /\ MatchOf[calls[Len(calls)]] # NoneDict
        /\ GetCommand(commands, MatchOf[calls[Len(calls)]].command_id) # None)
       => LET t == calls[Len(calls)]
              before == SubSeq(history, 1, Len(history) - 1)
              attached == ExecutedEntry(TRUE, t, commands, timeline)
              bare == ExecutedEntry(FALSE, t, commands, timeline)
          IN  /\ history[Len(history)] = (IF feedback_enabled THEN attached ELSE bare)
              /\ "feedback" \in DOMAIN attached.result
              /\ "feedback" \notin DOMAIN bare.result
              /\ last_feedback' # None
              /\ last_feedback' = LastFeedback(Append(before, attached), commands)
              /\ last_feedback' = LastFeedback(Append(before, bare), commands)]_vars

\* the feedback of an executed command was recomputed by the query on an
\* executor with feedback disabled
C30_Witness ==
    /\ last_op = "get_last_feedback"
    /\ ~feedback_enabled
    /\ history # <<>>
    /\ "command_id" \in DOMAIN history[Len(history)]
    /\ "feedback" \notin DOMAIN history[Len(history)].result
    /\ last_feedback = GetFeedback(commands[history[Len(history)].command_id],
                                   history[Len(history)].result)

(***************************************************************************)
(* Properties of the matcher (checked under SpecMatch).                    *)
(***************************************************************************)
\* C4: match_nlp_intent is first-match-wins in registration order (cut, then
\* transition, then marker): when the normalized text contains trigger phrases
\* of several commands the result is the earliest-registered of them, whatever
\* the position or length of the phrases in the text.
C4_FirstMatchWins ==
    mpc = "done" =>
        LET s == Normalize(text)
        IN  /\ HasPhraseOf("cut", s) => match_result.command_id = "cut"
            /\ (~HasPhraseOf("cut", s) /\ HasPhraseOf("transition", s))
                  => match_result.command_id = "transition"
            /\ (~HasPhraseOf("cut", s) /\ ~HasPhraseOf("transition", s) /\ HasPhraseOf("marker", s))
                  => match_result.command_id = "marker"

\* a text that starts with a (longer) marker phrase and goes on with a cut
\* phrase was matched to cut
C4_Witness ==
    /\ mpc = "done"
    /\ MatchAt("set marker", Normalize(text), 1)
    /\ HasPhraseOf("cut", Normalize(text))
    /\ match_result.command_id = "cut"

\* C5: match_nlp_intent returns absent exactly when no trigger phrase of any
\* registered command is a substring of the normalized input; empty and
\* whitespace-only input never matches.
C5_AbsentIffNoPhrase ==
    mpc = "done" =>
        /\ (match_result = NoneDict) <=> NoPhraseIn(Normalize(text))
        /\ (\A i \in 1..Len(text) : IsSpace(Char(text, i))) => match_result = NoneDict

\* a whitespace-only text and was matched to nothing
C5_Witness ==
    /\ mpc = "done"
    /\ text # ""
    /\ \A i \in 1..Len(text) : IsSpace(Char(text, i))
    /\ match_result = NoneDict

\* C6: an input that names a marker selects the marker command and yields the
\* name as written in the input, trimmed: "add a marker named 'Scene 1'" gives
\* command_id "marker" and params.name == "Scene 1".
C6_NameAsWritten ==
    (mpc = "done" /\ text = "add a marker named 'Scene 1'") =>
        /\ match_result.command_id = "marker"
        /\ "name" \in DOMAIN match_result.params
        /\ match_result.params.name = "Scene 1"

\* C7: fixed-vocabulary extraction takes the first table entry, in table order,
\* contained in the normalized input: params.type on a transition match,
\* the capitalized params.color on a marker match; the parameter is absent when
\* no entry is contained.
C7_FirstVocabularyEntry ==
    mpc = "done" /\ match_result # NoneDict =>
        LET s == Normalize(text)
            params == match_result.params
            phrase == <<"cross dissolve", "fade", "wipe", "push", "slide">>
            name == <<"Cross Dissolve", "Fade", "Wipe", "Push", "Slide">>
            color == <<"blue", "green", "red", "yellow", "purple", "cyan", "magenta", "white", "black">>
            Color == <<"Blue", "Green", "Red", "Yellow", "Purple", "Cyan", "Magenta", "White", "Black">>
        IN  /\ match_result.command_id = "transition" =>
                /\ \A k \in 1..5 :
                      (StrContains(phrase[k], s) /\ \A j \in 1..(k - 1) : ~StrContains(phrase[j], s))
                          => ("type" \in DOMAIN params /\ params.type = name[k])
                /\ (\A k \in 1..5 : ~StrContains(phrase[k], s)) => "type" \notin DOMAIN params
            /\ match_result.command_id = "marker" =>
                /\ \A k \in 1..9 :
                      (StrContains(color[k], s) /\ \A j \in 1..(k - 1) : ~StrContains(color[j], s))
                          => ("color" \in DOMAIN params /\ params.color = Color[k])
                /\ (\A k \in 1..9 : ~StrContains(color[k], s)) => "color" \notin DOMAIN params
            /\ text = "add a cross dissolve transition" => params.type = "Cross Dissolve"
            /\ text = "set a red marker" => params.color = "Red"

\* a transition text containing "fade" before "cross dissolve" got the type of
\* the earlier table entry
C7_Witness ==
    /\ mpc = "done"
    /\ match_result # NoneDict
    /\ match_result.command_id = "transition"
    /\ MatchAt("fade", Normalize(text), 1)
    /\ StrContains("cross dissolve", Normalize(text))
    /\ match_result.params.type = "Cross Dissolve"

(***************************************************************************)
(* Runtime-kind detection (_get_script_type of MCPHandler and MCPClient).  *)
(***************************************************************************)
\* the first line of a file that open() cannot read
Unreadable == "<unreadable>"

\* the scripts on disk: path, whether it exists, its first line
Scripts ==
    {[path |-> "/opt/mcp/server.py", exists |-> TRUE, first_line |-> "import mcp\n"],
     [path |-> "/opt/mcp/SERVER.MJS", exists |-> TRUE, first_line |-> "// server\n"],
     [path |-> "/opt/mcp/run_server", exists |-> TRUE, first_line |-> "#!/usr/bin/env python3\n"],
     [path |-> "/opt/mcp/run.sh", exists |-> TRUE, first_line |-> "#!/usr/bin/env node\n"],
     [path |-> "/opt/mcp/notes.txt", exists |-> TRUE, first_line |-> "python notes\n"],
     [path |-> "/opt/mcp/..py", exists |-> TRUE, first_line |-> "import mcp\n"],
     [path |-> "/opt/mcp/locked", exists |-> TRUE, first_line |-> Unreadable],
     [path |-> "/opt/mcp/missing.py", exists |-> FALSE, first_line |-> Unreadable],
     [path |-> "", exists |-> TRUE, first_line |-> Unreadable]}

RECURSIVE RFind(_, _, _)
\* the last index <= i of s that holds the character c, 0 if there is none
RFind(c, s, i) == IF i = 0 THEN 0 ELSE IF Char(s, i) = c THEN i ELSE RFind(c, s, i - 1)

RECURSIVE StripSlashes(_)
StripSlashes(path) ==
    IF Len(path) > 1 /\ Char(path, Len(path)) = "/" THEN StripSlashes(SubSeq(path, 1, Len(path) - 1)) ELSE path

\* pathlib.Path(path).suffix
PathSuffix(path) ==
    LET stripped == StripSlashes(path)
        name == SubSeq(stripped, RFind("/", stripped, Len(stripped)) + 1, Len(stripped))
        i == RFind(".", name, Len(name))
    IN  IF 1 < i /\ i < Len(name) THEN SubSeq(name, i, Len(name)) ELSE ""

RECURSIVE AllDots(_, _, _)
AllDots(s, i, j) == IF i >= j THEN TRUE ELSE Char(s, i) = "." /\ AllDots(s, i + 1, j)

\* os.path.splitext(path)[1]
SplitExt(path) ==
    LET sep == RFind("/", path, Len(path))
        dot == RFind(".", path, Len(path))
    IN  IF dot > sep /\ ~AllDots(path, sep + 1, dot) THEN SubSeq(path, dot, Len(path)) ELSE ""

\* the part of _get_script_type after the suffix ext was taken
ScriptTypeOf(ext, first_line) ==
    IF StrLower(ext) \in {".py", ".pyw"} THEN "python"
    ELSE IF StrLower(ext) \in {".js", ".mjs"} THEN "node"
    ELSE IF first_line = Unreadable THEN None
    ELSE LET line == StrStrip(first_line)
         IN  IF MatchAt("#!", line, 1) /\ StrContains("python", line) THEN "python"
             ELSE IF MatchAt("#!", line, 1) /\ StrContains("node", line) THEN "node"
             ELSE None

\* MCPHandler._get_script_type, for every script on disk
HandlerScriptType == [f \in Scripts |-> ScriptTypeOf(PathSuffix(f.path), f.first_line)]

\* MCPClient._get_script_type, for every script on disk
ClientScriptType == [f \in Scripts |-> ScriptTypeOf(SplitExt(f.path), f.first_line)]

(***************************************************************************)
(* MCPHandler: the Server Process Manager.  A coroutine is one action per  *)
(* stretch between two awaits.                                             *)
(***************************************************************************)
\* the call of task t returns r
Return(t, call, r) == [task EXCEPT ![t] = [call EXCEPT !.pc = "idle", !.ret = r]]

\* the next subprocess create_subprocess_exec would spawn (0: none left)
NextProc == IF \E p \in Procs : proc[p] = "unspawned"
            THEN CHOOSE p \in Procs : proc[p] = "unspawned" /\ \A q \in Procs : q < p => proc[q] # "unspawned"
            ELSE 0

InitHandler ==
    /\ GeminiIdle
    /\ LoopIdle
    /\ MatchIdle
    /\ ExecIdle
    /\ ClientIdle
    /\ h_config \in [enabled : BOOLEAN, script : Scripts]
    /\ server_process = 0
    /\ h_initialized = FALSE
    /\ proc = [p \in Procs |-> "unspawned"]
    /\ task = [t \in Tasks |-> IdleTask]

\* start_server up to the await of create_subprocess_exec
StartServerBegin(t) ==
    /\ task[t].pc = "idle"
    /\ NextProc # 0
    /\ LET call == [IdleTask EXCEPT !.op = "start_server", !.held = server_process]
       IN  IF \/ ~h_config.enabled
              \/ h_config.script.path = ""
              \/ ~h_config.script.exists
              \/ HandlerScriptType[h_config.script] = None
           THEN task' = Return(t, call, "false")
           ELSE task' = [task EXCEPT ![t] = [call EXCEPT !.pc = "start_spawn"]]
    /\ UNCHANGED <<h_config, server_process, h_initialized, proc, matchVars, execVars, clientVars, geminiVars, loopVars>>

\* create_subprocess_exec returned a process
StartServerSpawned(t) ==
    /\ task[t].pc = "start_spawn"
    /\ NextProc # 0
    /\ proc' = [proc EXCEPT ![NextProc] = "running"]
    /\ server_process' = NextProc
    /\ h_initialized' = TRUE
    /\ task' = Return(t, task[t], "true")
    /\ UNCHANGED <<h_config, matchVars, execVars, clientVars, geminiVars, loopVars>>

\* mutant: a failed spawn leaves the initialized flag as it was
StartServerSpawnFailedKeepsFlag(t) ==
    /\ task[t].pc = "start_spawn"
    /\ task' = Return(t, [task[t] EXCEPT !.raised = "spawn"], "false")
    /\ UNCHANGED <<h_config, server_process, h_initialized, proc, matchVars, execVars, clientVars, geminiVars, loopVars>>

\* create_subprocess_exec raised (the interpreter is not installed, ...)
StartServerSpawnFailed(t) ==
    /\ task[t].pc = "start_spawn"
    /\ h_initialized' = FALSE
    /\ task' = Return(t, [task[t] EXCEPT !.raised = "spawn"], "false")
    /\ UNCHANGED <<h_config, server_process, proc, matchVars, execVars, clientVars, geminiVars, loopVars>>

\* stop_server up to the await of wait_for(self.server_process.wait(), 5.0).
\* terminate() raises ProcessLookupError once the subprocess has exited and
\* its transport was closed.
StopServerBegin(t) ==
    /\ task[t].pc = "idle"
    /\ LET call == [IdleTask EXCEPT !.op = "stop_server", !.held = server_process,
                                   !.overlapping = \E u \in Tasks \ {t} :
                                        task[u].pc \in {"stop_wait", "stop_kill_wait"}]
       IN  IF server_process = 0
           THEN task' = Return(t, call, "false")
           ELSE \/ /\ proc[server_process] = "exited"
                   /\ task' = Return(t, [call EXCEPT !.term = 1, !.raised = "terminate"], "false")
                \/ task' = [task EXCEPT ![t] = [call EXCEPT !.term = 1, !.pc = "stop_wait",
                                                           !.waiting = server_process]]
    /\ UNCHANGED <<h_config, server_process, h_initialized, proc, matchVars, execVars, clientVars, geminiVars, loopVars>>

\* the lines after the try/except TimeoutError: clear the handle, return True
StopServerClear(t) ==
    /\ server_process' = 0
    /\ h_initialized' = FALSE
    /\ task' = Return(t, task[t], "true")
    /\ UNCHANGED <<h_config, proc, matchVars, execVars, clientVars, geminiVars, loopVars>>

\* the subprocess exited within the timeout: wait() returned
StopServerExited(t) ==
    /\ task[t].pc = "stop_wait"
    /\ proc[task[t].waiting] = "exited"
    /\ StopServerClear(t)

\* mutant: TimeoutError is not told apart from the other errors and ends the
\* call in the except clause
StopServerTimeoutIsFailure(t) ==
    /\ task[t].pc = "stop_wait"
    /\ proc[task[t].waiting] = "running"
    /\ task' = Return(t, [task[t] EXCEPT !.timed_out = TRUE, !.raised = "wait"], "false")
    /\ UNCHANGED <<h_config, server_process, h_initialized, proc, matchVars, execVars, clientVars, geminiVars, loopVars>>

\* the timeout of wait_for expired with the subprocess still running: wait_for
\* cancels the wait(), awaits its cancellation and then raises TimeoutError
StopServerTimeout(t) ==
    /\ task[t].pc = "stop_wait"
    /\ proc[task[t].waiting] = "running"
    /\ task' = [task EXCEPT ![t] = [@ EXCEPT !.timed_out = TRUE, !.pc = "stop_timed_out"]]
    /\ UNCHANGED <<h_config, server_process, h_initialized, proc, matchVars, execVars, clientVars, geminiVars, loopVars>>

\* the except TimeoutError clause: kill() and the await of the second wait().
\* self.server_process is read again: it is None if another call cleared it
\* (AttributeError); kill() raises ProcessLookupError once the subprocess has
\* exited and its transport was closed.
StopServerKill(t) ==
    /\ task[t].pc = "stop_timed_out"
    /\ IF server_process = 0
       THEN task' = Return(t, [task[t] EXCEPT !.raised = "kill"], "false")
       ELSE \/ /\ proc[server_process] = "exited"
               /\ task' = Return(t, [task[t] EXCEPT !.kill = 1, !.raised = "kill"], "false")
            \/ task' = [task EXCEPT ![t] = [@ EXCEPT !.kill = 1, !.pc = "stop_kill_wait",
                                                     !.waiting = server_process]]
    /\ UNCHANGED <<h_config, server_process, h_initialized, proc, matchVars, execVars, clientVars, geminiVars, loopVars>>

\* the killed subprocess exited: the second wait() returned
StopServerKilled(t) ==
    /\ task[t].pc = "stop_kill_wait"
    /\ proc[task[t].waiting] = "exited"
    /\ StopServerClear(t)

\* a subprocess exits (on its own, or on the signal it was sent)
ProcessExits(p) ==
    /\ proc[p] = "running"
    /\ proc' = [proc EXCEPT ![p] = "exited"]
    /\ UNCHANGED <<h_config, server_process, h_initialized, task, matchVars, execVars, clientVars, geminiVars, loopVars>>

\* mutant: is_running answers from the initialized flag
IsRunningFromFlag == h_initialized

\* the value of is_running(): a handle is held and its returncode is None
IsRunningValue == server_process # 0 /\ proc[server_process] = "running"

\* is_running()
IsRunning(t) ==
    /\ task[t].pc = "idle"
    /\ task' = Return(t, [IdleTask EXCEPT !.op = "is_running", !.held = server_process],
                      IF IsRunningValue THEN "true" ELSE "false")
    /\ UNCHANGED <<h_config, server_process, h_initialized, proc, matchVars, execVars, clientVars, geminiVars, loopVars>>

\* one caller: a call is made only when the previous one has returned
NextHandler ==
    \/ StartServerBegin(1)
    \/ StartServerSpawned(1)
    \/ StartServerSpawnFailed(1)
    \/ StopServerBegin(1)
    \/ StopServerExited(1)
    \/ StopServerTimeout(1)
    \/ StopServerKill(1)
    \/ StopServerKilled(1)
    \/ IsRunning(1)
    \/ \E p \in Procs : ProcessExits(p)

SpecHandler == InitHandler /\ [][NextHandler]_vars

(***************************************************************************)
(* Properties of the Server Process Manager (checked under SpecHandler).   *)
(***************************************************************************)
\* the step is the return of a stop_server call of task t that found a handle
StopReturns(t) ==
    /\ task'[t] # task[t]
    /\ task'[t].pc = "idle"
    /\ task'[t].op = "stop_server"
    /\ task'[t].held # 0

\* C8: whenever stop() is called while a process handle is held, the handle is
\* absent and initialized is false when stop() returns, on every path: graceful
\* exit, timeout followed by forced kill, and an error raised by the terminate,
\* kill or wait step.
C8_StopAlwaysClears ==
    [][\A t \in Tasks : StopReturns(t) => (server_process' = 0 /\ ~h_initialized')]_vars

HandlerReturns(t, op) ==
    /\ task'[t] # task[t]
    /\ task'[t].pc = "idle"
    /\ task'[t].op = op

\* one of the four checks start_server makes before spawning fails
StartRefused ==
    \/ ~h_config.enabled
    \/ h_config.script.path = ""
    \/ ~h_config.script.exists
    \/ HandlerScriptType[h_config.script] = None

\* C14: start() returns false, spawns no subprocess and leaves initialized
\* false whenever the manager is disabled, has an empty script path, the
\* script file does not exist or its runtime kind is unrecognized; a failed
\* spawn likewise returns false with initialized false; no exception escapes.
C14_StartFailsCleanly ==
    [][\A t \in Tasks : HandlerReturns(t, "start_server")
          => /\ task'[t].ret \in {"true", "false"}
             /\ StartRefused => /\ task'[t].ret = "false"
                                /\ task'[t].raised = "none"
                                /\ proc' = proc
                                /\ server_process' = server_process
                                /\ ~h_initialized'
             /\ task'[t].raised = "spawn" => /\ task'[t].ret = "false"
                                             /\ proc' = proc
                                             /\ ~h_initialized'
             /\ task'[t].ret = "false" => (StartRefused \/ task'[t].raised = "spawn")]_vars

\* start() failed at the spawn while the handle of an earlier start was held
C14_Witness ==
    /\ task[1].op = "start_server"
    /\ task[1].pc = "idle"
    /\ task[1].ret = "false"
    /\ task[1].raised = "spawn"
    /\ task[1].held # 0
    /\ ~h_initialized

\* C20: is_running() is true exactly when a handle is held and the exit
\* status of that process is unset: false before any start, false after a
\* stop() that returned true, false once the subprocess exited on its own
\* with the handle still held; it changes no state and never raises.
C20_IsRunningIsLive ==
    [][\A t \in Tasks : HandlerReturns(t, "is_running")
          => /\ task'[t].ret \in {"true", "false"}
             /\ task'[t].ret = "true" <=> (server_process # 0 /\ proc[server_process] = "running")
             /\ (\A p \in Procs : proc[p] = "unspawned") => task'[t].ret = "false"
             /\ (task[t].op = "stop_server" /\ task[t].ret = "true") => task'[t].ret = "false"
             /\ (server_process # 0 /\ proc[server_process] = "exited") => task'[t].ret = "false"
             /\ UNCHANGED <<h_config, server_process, h_initialized, proc>>]_vars

\* is_running() answered false for a held handle whose process had exited
C20_Witness ==
    /\ task[1].op = "is_running"
    /\ task[1].ret = "false"
    /\ task[1].held # 0
    /\ server_process = task[1].held
    /\ proc[server_process] = "exited"
    /\ h_initialized

\* C25: runtime-kind detection gives the same answer in the Server Process
\* Manager and in the Protocol Client for every script; when no kind is
\* detected start() returns false without spawning a subprocess.
C25_DetectionAgrees ==
    LET f == h_config.script
    IN  /\ HandlerScriptType[f] = ClientScriptType[f]
        /\ (HandlerScriptType[f] = None /\ task[1].op = "start_server" /\ task[1].pc = "idle")
              => (task[1].ret = "false" /\ \A p \in Procs : proc[p] = "unspawned")

\* C26: after any sequence of start() and stop() calls, failed ones included,
\* initialized is true exactly when a process handle is held.
C26_InitializedIffHandle == h_initialized <=> server_process # 0

\* C27: every live subprocess spawned by the manager is the one its handle
\* references, and after a stop() that returned true none is running.
C27_NoUntrackedProcess ==
    /\ \A p \in Procs : proc[p] = "running" => server_process = p
    /\ \A t \in Tasks : (task[t].op = "stop_server" /\ task[t].pc = "idle" /\ task[t].ret = "true")
                           => \A p \in Procs : proc[p] # "running"

(***************************************************************************)
(* Several callers of one Server Process Manager: stop_server calls of     *)
(* different callers interleave at their awaits.  The manager is started   *)
(* by caller 1 while no call is in progress, and no stop_server begins     *)
(* while it is being started.                                              *)
(***************************************************************************)
NoCallInProgress == \A u \in Tasks : task[u].pc = "idle"

NextHandlerConcurrent ==
    \/ NoCallInProgress /\ StartServerBegin(1)
    \/ StartServerSpawned(1)
    \/ StartServerSpawnFailed(1)
    \/ \E t \in Tasks : task[1].pc # "start_spawn" /\ StopServerBegin(t)
    \/ \E t \in Tasks : StopServerExited(t)
    \/ \E t \in Tasks : StopServerTimeout(t)
    \/ \E t \in Tasks : StopServerKill(t)
    \/ \E t \in Tasks : StopServerKilled(t)
    \/ \E p \in Procs : ProcessExits(p)

SpecHandlerConcurrent == InitHandler /\ [][NextHandlerConcurrent]_vars

\* C29: two overlapping stop() calls on a held process (the second begins
\* while the first is suspended) never raise, and once both have returned
\* the process has exited, the handle is absent and initialized is false.
C29_OverlappingStopsClear ==
    [][\A t \in Tasks, u \in Tasks :
          (/\ t # u
           /\ StopReturns(t)
           /\ task'[u].op = "stop_server"
           /\ task'[u].pc = "idle"
           /\ task'[u].held = task'[t].held
           /\ task'[t].overlapping \/ task'[u].overlapping)
          => (/\ task'[t].ret \in {"true", "false"}
              /\ task'[u].ret \in {"true", "false"}
              /\ proc'[task'[t].held] = "exited"
              /\ server_process' = 0
              /\ ~h_initialized')]_vars

(***************************************************************************)
(* MCPClient: the Protocol Client.  stacks[k] is the transport owned by    *)
(* the k-th AsyncExitStack: "unused" (stack not created yet), "none",      *)
(* "open", "closed", or "leaked": open, but no longer on its stack, whose   *)
(* aclose() ran the exit callback and popped it although the exit raised.  *)
(* The session created on transport k is session k.                        *)
(***************************************************************************)
ClientReturn(t, call, r) == [ctask EXCEPT ![t] = [call EXCEPT !.pc = "idle", !.ret = r]]

\* the next AsyncExitStack() a connect_to_server call would create (0: none left)
NextStack == IF \E k \in StackIds : stacks[k] = "unused"
             THEN CHOOSE k \in StackIds : stacks[k] = "unused" /\ \A j \in StackIds : j < k => stacks[j] # "unused"
             ELSE 0

InitClient ==
    /\ GeminiIdle
    /\ LoopIdle
    /\ MatchIdle
    /\ ExecIdle
    /\ HandlerIdle
    /\ c_config \in [enabled : BOOLEAN, anthropic : BOOLEAN]
    /\ c_initialized = FALSE
    /\ exit_stack = 0
    /\ session = 0
    /\ stacks = [k \in StackIds |-> "unused"]
    /\ ctask = [t \in Tasks |-> IdleClientTask]

\* connect_to_server(f.path) up to the await of enter_async_context
ConnectBegin(t, f) ==
    /\ ctask[t].pc = "idle"
    /\ NextStack # 0
    /\ LET call == [IdleClientTask EXCEPT !.op = "connect_to_server", !.was_initialized = c_initialized]
       IN  IF ~c_config.enabled \/ ~c_config.anthropic
           THEN /\ ctask' = ClientReturn(t, call, "false")
                /\ UNCHANGED <<exit_stack, stacks>>
           ELSE /\ exit_stack' = NextStack
                /\ stacks' = [stacks EXCEPT ![NextStack] = "none"]
                /\ IF ClientScriptType[f] = None
                   THEN ctask' = ClientReturn(t, [call EXCEPT !.stack = NextStack, !.failed_at = "detect"], "false")
                   ELSE ctask' = [ctask EXCEPT ![t] = [call EXCEPT !.stack = NextStack, !.pc = "connect_open"]]
    /\ UNCHANGED <<c_config, c_initialized, session, matchVars, execVars, handlerVars, geminiVars, loopVars>>

\* the except clause of connect_to_server, entered from the step `at`
ConnectExcept(t, at) ==
    LET call == [ctask[t] EXCEPT !.failed_at = at]
    IN  IF exit_stack # 0
        THEN /\ ctask' = [ctask EXCEPT ![t] = [call EXCEPT !.pc = "connect_cleanup", !.closing = exit_stack]]
             /\ UNCHANGED <<c_initialized, session>>
        ELSE /\ session' = 0
             /\ c_initialized' = FALSE
             /\ ctask' = ClientReturn(t, call, "false")

\* stdio_client was entered: the transport is open, the session is created
\* on it and its initialize() is awaited
ConnectOpened(t) ==
    /\ ctask[t].pc = "connect_open"
    /\ stacks' = [stacks EXCEPT ![ctask[t].stack] = "open"]
    /\ session' = ctask[t].stack
    /\ ctask' = [ctask EXCEPT ![t] = [@ EXCEPT !.pc = "connect_init",
                                             !.steps = @ \o <<"open_transport", "create_session">>]]
    /\ UNCHANGED <<c_config, c_initialized, exit_stack, matchVars, execVars, handlerVars, geminiVars, loopVars>>

\* session.initialize() returned: list_resources() is awaited
ConnectInitialized(t) ==
    /\ ctask[t].pc = "connect_init"
    /\ IF session = 0 THEN ConnectExcept(t, "list_resources")
       ELSE /\ ctask' = [ctask EXCEPT ![t] = [@ EXCEPT !.pc = "connect_resources",
                                                     !.steps = Append(@, "initialize")]]
            /\ UNCHANGED <<c_initialized, session>>
    /\ UNCHANGED <<c_config, exit_stack, stacks, matchVars, execVars, handlerVars, geminiVars, loopVars>>

\* list_resources() returned: list_tools() is awaited if the session
\* advertises tools, else the client is initialized
ConnectListed(t, has_tools) ==
    /\ ctask[t].pc = "connect_resources"
    /\ IF session = 0 THEN ConnectExcept(t, "list_tools")
       ELSE IF has_tools
       THEN /\ ctask' = [ctask EXCEPT ![t] = [@ EXCEPT !.pc = "connect_tools", !.advertises_tools = TRUE,
                                                     !.steps = Append(@, "list_resources")]]
            /\ UNCHANGED <<c_initialized, session>>
       ELSE /\ c_initialized' = TRUE
            /\ ctask' = ClientReturn(t, [ctask[t] EXCEPT !.steps = Append(@, "list_resources")], "true")
            /\ UNCHANGED session
    /\ UNCHANGED <<c_config, exit_stack, stacks, matchVars, execVars, handlerVars, geminiVars, loopVars>>

\* list_tools() returned
ConnectToolsListed(t) ==
    /\ ctask[t].pc = "connect_tools"
    /\ c_initialized' = TRUE
    /\ ctask' = ClientReturn(t, [ctask[t] EXCEPT !.listed_tools = TRUE,
                                                 !.steps = Append(@, "list_tools")], "true")
    /\ UNCHANGED <<c_config, exit_stack, session, stacks, matchVars, execVars, handlerVars, geminiVars, loopVars>>

\* the awaited step (opening the transport, initialize, list_resources,
\* list_tools) raised
ConnectStepRaises(t) ==
    /\ ctask[t].pc \in {"connect_open", "connect_init", "connect_resources", "connect_tools"}
    /\ ConnectExcept(t, ctask[t].pc)
    /\ UNCHANGED <<c_config, exit_stack, stacks, matchVars, execVars, handlerVars, geminiVars, loopVars>>

\* exit_stack.aclose() of the except clause returned
ConnectCleanupDone(t) ==
    /\ ctask[t].pc = "connect_cleanup"
    /\ stacks' = [stacks EXCEPT ![ctask[t].closing] = IF @ = "open" THEN "closed" ELSE @]
    /\ exit_stack' = 0
    /\ session' = 0
    /\ c_initialized' = FALSE
    /\ ctask' = ClientReturn(t, ctask[t], "false")
    /\ UNCHANGED <<c_config, matchVars, execVars, handlerVars, geminiVars, loopVars>>

\* exit_stack.aclose() of the except clause raised (the exit of the transport
\* failed, leaving it closed or not): the exception leaves connect_to_server
ConnectCleanupRaises(t, left) ==
    /\ ctask[t].pc = "connect_cleanup"
    /\ stacks[ctask[t].closing] = "open"
    /\ stacks' = [stacks EXCEPT ![ctask[t].closing] = left]
    /\ ctask' = ClientReturn(t, ctask[t], "raised")
    /\ UNCHANGED <<c_config, c_initialized, exit_stack, session, matchVars, execVars, handlerVars, geminiVars, loopVars>>

\* disconnect() up to the await of exit_stack.aclose()
DisconnectBegin(t) ==
    /\ ctask[t].pc = "idle"
    /\ LET call == [IdleClientTask EXCEPT !.op = "disconnect", !.was_initialized = c_initialized]
       IN  IF ~c_initialized \/ exit_stack = 0
           THEN ctask' = ClientReturn(t, call, "false")
           ELSE ctask' = [ctask EXCEPT ![t] = [call EXCEPT !.pc = "disconnect_close", !.closing = exit_stack]]
    /\ UNCHANGED <<c_config, c_initialized, exit_stack, session, stacks, matchVars, execVars, handlerVars, geminiVars, loopVars>>

\* exit_stack.aclose() of disconnect returned
DisconnectClosed(t) ==
    /\ ctask[t].pc = "disconnect_close"
    /\ stacks' = [stacks EXCEPT ![ctask[t].closing] = IF @ = "open" THEN "closed" ELSE @]
    /\ exit_stack' = 0
    /\ session' = 0
    /\ c_initialized' = FALSE
    /\ ctask' = ClientReturn(t, ctask[t], "true")
    /\ UNCHANGED <<c_config, matchVars, execVars, handlerVars, geminiVars, loopVars>>

\* exit_stack.aclose() of disconnect raised
DisconnectRaises(t, left) ==
    /\ ctask[t].pc = "disconnect_close"
    /\ stacks[ctask[t].closing] = "open"
    /\ stacks' = [stacks EXCEPT ![ctask[t].closing] = left]
    /\ ctask' = ClientReturn(t, [ctask[t] EXCEPT !.failed_at = "aclose"], "false")
    /\ UNCHANGED <<c_config, c_initialized, exit_stack, session, matchVars, execVars, handlerVars, geminiVars, loopVars>>

\* the texts of the content blocks of the message the hosted model returns
Responses == {<<>>, <<"Cut performed">>, <<"Cut performed", "Anything else?">>}

\* str(e) of the exception a failed request raises
RequestError == "Connection error."

\* str(e) of the TypeError raised by awaiting a value that is not awaitable
\* (Anthropic(...).messages.create returns the Message itself)
AwaitError == "object Message can't be used in 'await' expression"

\* process_query(query) up to the await of messages.create
QueryBegin(t) ==
    /\ ctask[t].pc = "idle"
    /\ LET call == [IdleClientTask EXCEPT !.op = "process_query", !.was_initialized = c_initialized]
       IN  IF ~c_initialized \/ session = 0
           THEN ctask' = ClientReturn(t, call, "Error: Not connected to MCP server")
           ELSE IF ~c_config.anthropic
           THEN ctask' = ClientReturn(t, call, "Error: Anthropic client not initialized")
           ELSE ctask' = [ctask EXCEPT ![t] = [call EXCEPT !.pc = "query_wait", !.ready = TRUE, !.requests = 1]]
    /\ UNCHANGED <<c_config, c_initialized, exit_stack, session, stacks, matchVars, execVars, handlerVars, geminiVars, loopVars>>

\* the lines after the await: the text of the first content block, or the
\* fixed string when the message has no content
QueryResult(content) ==
    IF content # <<>> THEN content[1] ELSE "No response received from Claude"

\* the except clause of process_query
QueryError(e) == "Error: " \o ("Error processing query with MCP: " \o e)

\* the hosted model answered the request with a message of this content;
\* awaitable: messages.create returned an awaitable (as the AsyncMock of the
\* tests does) and not the message itself (as the client built in __init__)
QueryAnswered(t, content, awaitable) ==
    /\ ctask[t].pc = "query_wait"
    /\ ctask' = ClientReturn(t, [ctask[t] EXCEPT !.response = content],
                             IF awaitable THEN QueryResult(content) ELSE QueryError(AwaitError))
    /\ UNCHANGED <<c_config, c_initialized, exit_stack, session, stacks, matchVars, execVars, handlerVars, geminiVars, loopVars>>

\* the request failed: messages.create raised
QueryFailed(t) ==
    /\ ctask[t].pc = "query_wait"
    /\ ctask' = ClientReturn(t, [ctask[t] EXCEPT !.request_failed = TRUE], QueryError(RequestError))
    /\ UNCHANGED <<c_config, c_initialized, exit_stack, session, stacks, matchVars, execVars, handlerVars, geminiVars, loopVars>>

\* one caller: a call is made only when the previous one has returned
NextClient ==
    \/ \E f \in Scripts : ConnectBegin(1, f)
    \/ ConnectOpened(1)
    \/ ConnectInitialized(1)
    \/ \E has_tools \in BOOLEAN : ConnectListed(1, has_tools)
    \/ ConnectToolsListed(1)
    \/ ConnectStepRaises(1)
    \/ ConnectCleanupDone(1)
    \/ \E left \in {"leaked", "closed"} : ConnectCleanupRaises(1, left)
    \/ DisconnectBegin(1)
    \/ DisconnectClosed(1)
    \/ \E left \in {"leaked", "closed"} : DisconnectRaises(1, left)
    \/ QueryBegin(1)
    \/ \E content \in Responses, awaitable \in BOOLEAN : QueryAnswered(1, content, awaitable)
    \/ QueryFailed(1)

SpecClient == InitClient /\ [][NextClient]_vars

(***************************************************************************)
(* Properties of the Protocol Client (checked under SpecClient).           *)
(***************************************************************************)
\* C10: if connect_to_server fails at any step after its preconditions passed
\* (runtime-kind detection, opening the transport, session initialize,
\* resource listing, tool listing), then when it returns false initialized is
\* false, session is absent, and every transport opened during that call has
\* been closed, from any prior state of the client.
C10_FailedConnectReleases ==
    [][\A t \in Tasks :
          (/\ ctask'[t] # ctask[t]
           /\ ctask'[t].pc = "idle"
           /\ ctask'[t].op = "connect_to_server"
           /\ ctask'[t].ret = "false"
           /\ ctask'[t].stack # 0)
          => (/\ ~c_initialized'
              /\ session' = 0
              /\ stacks'[ctask'[t].stack] \notin {"open", "leaked"})]_vars

\* the call of task t returns in this step
ClientReturns(t, op) ==
    /\ ctask'[t] # ctask[t]
    /\ ctask'[t].pc = "idle"
    /\ ctask'[t].op = op

\* C11: after disconnect() is called on a connected client (initialized, a
\* resource stack held), the client is Idle when the call returns:
\* initialized false, session absent, no resource stack held, even when
\* closing the resources raises.
C11_DisconnectReturnsToIdle ==
    [][\A t \in Tasks :
          (ClientReturns(t, "disconnect") /\ ctask'[t].was_initialized /\ ctask'[t].closing # 0)
          => (~c_initialized' /\ session' = 0 /\ exit_stack' = 0)]_vars

\* C12: in every reachable state, initialized implies that the client holds
\* the resource stack owning an open transport, a session over that
\* transport, and a hosted-model client.
C12_InitializedImpliesLive ==
    c_initialized => /\ exit_stack # 0
                     /\ stacks[exit_stack] = "open"
                     /\ session = exit_stack
                     /\ c_config.anthropic

\* C13: a disconnect() called right after a disconnect(), or on a client that
\* never connected, returns false at once, raises nothing and changes
\* neither initialized, session nor the resource stack.
C13_SecondDisconnectIsNoOp ==
    [][\A t \in Tasks :
          (/\ ctask[t].pc = "idle"
           /\ ctask[t].op = "disconnect" \/ \A k \in StackIds : stacks[k] = "unused"
           /\ ctask'[t] # ctask[t]
           /\ ctask'[t].op = "disconnect")
          => (/\ ctask'[t].pc = "idle"
              /\ ctask'[t].ret = "false"
              /\ UNCHANGED <<c_initialized, session, exit_stack, stacks>>)]_vars

\* s starts with "Error: "
IsErrorString(s) == Len(s) >= 7 /\ SubSeq(s, 1, 7) = "Error: "

\* C15: process_query never raises and never changes initialized, session or
\* the resource stack; when the client is not initialized, has no session or
\* no hosted-model client it returns an "Error: " string without sending a
\* request; otherwise it sends exactly one request and returns the first
\* text segment of the response, or an "Error: " string when the request
\* fails.
C15_QueryOutcome ==
    [][\A t \in Tasks :
          /\ (ctask'[t] # ctask[t] /\ ctask'[t].op = "process_query")
             => UNCHANGED <<c_initialized, session, exit_stack, stacks>>
          /\ ClientReturns(t, "process_query")
             => /\ ctask'[t].ret # "raised"
                /\ IF ~ctask'[t].ready
                   THEN ctask'[t].requests = 0 /\ IsErrorString(ctask'[t].ret)
                   ELSE /\ ctask'[t].requests = 1
                        /\ IF ctask'[t].request_failed
                           THEN IsErrorString(ctask'[t].ret)
                           ELSE /\ ctask'[t].response # <<>>
                                /\ ctask'[t].ret = ctask'[t].response[1]]_vars

\* C24: a connect_to_server that returns true has opened the transport,
\* created the session, initialized it and listed the resources, in this
\* order and once each, and then listed the tools exactly when the session
\* advertises them; and initialized is never true while the session the
\* client holds is one whose initialize() has not completed.
C24_ConnectOrder ==
    \A t \in Tasks :
        /\ (ctask[t].op = "connect_to_server" /\ ctask[t].pc = "idle" /\ ctask[t].ret = "true")
              => ctask[t].steps = <<"open_transport", "create_session", "initialize", "list_resources">>
                                     \o (IF ctask[t].advertises_tools THEN <<"list_tools">> ELSE <<>>)
        /\ (ctask[t].op = "connect_to_server" /\ session # 0 /\ session = ctask[t].stack
               /\ \A i \in 1..Len(ctask[t].steps) : ctask[t].steps[i] # "initialize")
              => ~c_initialized

\* C28: at most one transport is open at any time, and once a disconnect()
\* has returned true every transport that was opened has been closed.
C28_NoTransportLeak ==
    /\ Cardinality({k \in StackIds : stacks[k] \in {"open", "leaked"}}) <= 1
    /\ \A t \in Tasks :
          (ctask[t].op = "disconnect" /\ ctask[t].pc = "idle" /\ ctask[t].ret = "true")
             => \A k \in StackIds : stacks[k] \notin {"open", "leaked"}

(***************************************************************************)
(* The Command Catalog on its own: registrations (the assignment           *)
(* self.commands[id] = command of _register_commands) and lookups.         *)
(***************************************************************************)
MaxRegistrations == 2

\* the ids registered under, and the ids looked up
RegisterIds == {"cut", "marker", "zoom"}
LookupIds == RegisterIds \cup {"transition", "non_existent"}

InitCatalog ==
    /\ GeminiIdle
    /\ LoopIdle
    /\ MatchIdle
    /\ ExecIdle
    /\ HandlerIdle
    /\ ClientIdle

\* mutant: a registration under an id already present is ignored
RegisterKeepsFirst(id, command) ==
    /\ Len(registrations) < Len(InitialRegistrations) + MaxRegistrations
    /\ commands' = commands @@ (id :> command)
    /\ registrations' = Append(registrations, [id |-> id, command |-> command])
    /\ UNCHANGED <<history, feedback_enabled, lookup, timeline, last_result, last_feedback,
                   calls, execute_calls, binding_calls, last_op, matchVars, handlerVars, clientVars, geminiVars, loopVars>>

\* self.commands[id] = command
Register(id, command) ==
    /\ Len(registrations) < Len(InitialRegistrations) + MaxRegistrations
    /\ commands' = (id :> command) @@ commands
    /\ registrations' = Append(registrations, [id |-> id, command |-> command])
    /\ UNCHANGED <<history, feedback_enabled, lookup, timeline, last_result, last_feedback,
                   calls, execute_calls, binding_calls, last_op, matchVars, handlerVars, clientVars, geminiVars, loopVars>>

\* get_command(id)
Lookup(id) ==
    /\ lookup' = [id |-> id, found |-> GetCommand(commands, id)]
    /\ UNCHANGED <<history, feedback_enabled, commands, registrations, timeline, last_result,
                   last_feedback, calls, execute_calls, binding_calls, last_op,
                   matchVars, handlerVars, clientVars, geminiVars, loopVars>>

NextCatalog ==
    \/ \E id \in RegisterIds, command \in Commands : Register(id, command)
    \/ \E id \in LookupIds : Lookup(id)

SpecCatalog == InitCatalog /\ [][NextCatalog]_vars

\* the positions of the registrations made under id
RegisteredAt(regs, id) == {i \in 1..Len(regs) : regs[i].id = id}

\* the command of the last registration under id, None when there is none
LastRegistered(regs, id) ==
    IF RegisteredAt(regs, id) = {} THEN None
    ELSE regs[CHOOSE i \in RegisteredAt(regs, id) : \A j \in RegisteredAt(regs, id) : j <= i].command

\* C19: lookup(id) after a register under id returns exactly that command;
\* a second registration under the same id replaces the first; lookup of an
\* id never registered returns absent and changes nothing.
C19_LookupReturnsLastRegistered ==
    /\ [](\A id \in LookupIds : GetCommand(commands, id) = LastRegistered(registrations, id))
    /\ [][registrations' # registrations =>
             LET r == registrations'[Len(registrations')]
             IN  /\ GetCommand(commands', r.id) = r.command
                 /\ \A id \in LookupIds \ {r.id} : GetCommand(commands', id) = GetCommand(commands, id)]_vars
    /\ [][lookup' # lookup =>
             /\ lookup'.found = LastRegistered(registrations, lookup'.id)
             /\ (RegisteredAt(registrations, lookup'.id) = {} => lookup'.found = None)
             /\ UNCHANGED <<commands, registrations>>]_vars

\* an id was registered twice with different commands; the lookup returned the
\* second
C19_Witness ==
    /\ lookup # NoneDict
    /\ \E i, j \in 1..Len(registrations) :
          /\ i < j
          /\ registrations[i].id = lookup.id
          /\ registrations[j].id = lookup.id
          /\ registrations[i].command # registrations[j].command
          /\ \A k \in RegisteredAt(registrations, lookup.id) : k <= j
          /\ lookup.found = registrations[j].command

(***************************************************************************)
(* GeminiAPIHandler: the hosted-model adapter.  Its methods are            *)
(* synchronous: one action per call.  Floats are counted in tenths         *)
(* (temperature 0.7 is 7); an Optional argument is <<>> when None and      *)
(* <<v>> when given.  g_sent lists the calls made into the model object.   *)
(***************************************************************************)
MaxGeminiCalls == 2
MaxMessages == 3

\* the dict literal assigned to self.generation_config by initialize
DefaultGenerationConfig ==
    [temperature |-> 7, top_p |-> 9, top_k |-> 40, max_output_tokens |-> 1024]

\* the arguments the calls are made with
Prompts == {"Test prompt"}
Temperatures == {<<>>, <<-5>>, <<8>>, <<25>>}
MaxOutputTokens == {<<>>, <<2048>>}
Roles == {"user", "model"}

\* the i-th message of a conversation has its own content
MessageContent(i) == "message " \o NatToStr(i)
MessageLists ==
    UNION {{[i \in 1..n |-> [role |-> r[i], content |-> MessageContent(i)]] : r \in [1..n -> Roles]}
           : n \in 0..MaxMessages}

\* what a call into the model does: it returns a response whose text is the
\* given one, it raises, or it returns a response whose .text raises
Raises == "<raises>"
TextRaises == "<text raises>"
ModelOutcomes == {"Mock response", Raises, TextRaises}

\* str(e) of the exception a failed model call raises
ApiError == "API error"

\* the text of the response chat.send_message(content) returns
ReplyTo(content) == "reply to " \o content

NotInitializedError == "Error: API not initialized"
NoChatResponse == "No response generated from chat session"

\* the builtins min(a, b) and max(a, b)
PyMin(a, b) == IF b < a THEN b ELSE a
PyMax(a, b) == IF b > a THEN b ELSE a

\* max(0.0, min(1.0, temperature))
ClampTemperature(temperature) == PyMax(0, PyMin(10, temperature))

\* the per-call copy of the defaults with the given overrides applied
CustomConfig(defaults, temperature, max_output_tokens) ==
    LET with_temperature ==
            IF temperature # <<>>
            THEN [defaults EXCEPT !.temperature = ClampTemperature(temperature[1])]
            ELSE defaults
    IN  IF max_output_tokens # <<>>
        THEN [with_temperature EXCEPT !.max_output_tokens = max_output_tokens[1]]
        ELSE with_temperature

\* the adapter as constructed: with a credential and a successful
\* initialize, or without one (or with a failed initialize)
GeminiConstructed ==
    /\ g_initialized \in BOOLEAN
    /\ generation_config = IF g_initialized THEN DefaultGenerationConfig ELSE NoneDict
    /\ g_sent = <<>>
    /\ g_calls = 0
    /\ g_last = [op |-> "none"]

InitGemini ==
    /\ MatchIdle
    /\ ExecIdle
    /\ HandlerIdle
    /\ ClientIdle
    /\ LoopIdle
    /\ GeminiConstructed

\* GeminiAPIHandler.initialize(api_key); ok: genai.configure and
\* GenerativeModel did not raise
Initialize(ok) ==
    /\ g_calls < MaxGeminiCalls
    /\ g_calls' = g_calls + 1
    /\ g_initialized' = ok
    /\ generation_config' = IF ok THEN DefaultGenerationConfig ELSE generation_config
    /\ g_last' = [op |-> "initialize", ret |-> ok]
    /\ UNCHANGED <<g_sent, matchVars, handlerVars, clientVars>>

\* GeminiAPIHandler.generate_response(prompt)
GenerateResponse(prompt, outcome) ==
    /\ g_calls < MaxGeminiCalls
    /\ g_calls' = g_calls + 1
    /\ IF ~g_initialized
       THEN /\ g_sent' = g_sent
            /\ g_last' = [op |-> "generate_response", ret |-> NotInitializedError]
       ELSE /\ g_sent' = Append(g_sent, [api |-> "generate_content", content |-> prompt,
                                         generation_config |-> NoneDict])
            /\ g_last' = [op |-> "generate_response",
                          ret |-> IF outcome \in {Raises, TextRaises}
                                  THEN "Error: Error generating response from Gemini API: " \o ApiError
                                  ELSE outcome]
    /\ UNCHANGED <<g_initialized, generation_config, matchVars, handlerVars, clientVars>>

\* mutant: the overrides are written into self.generation_config (no copy)
GenerateWithConfigInPlace(prompt, temperature, max_output_tokens, outcome) ==
    /\ g_calls < MaxGeminiCalls
    /\ g_calls' = g_calls + 1
    /\ LET args == [prompt |-> prompt, temperature |-> temperature,
                    max_output_tokens |-> max_output_tokens]
       IN  IF ~g_initialized
           THEN /\ g_sent' = g_sent
                /\ generation_config' = generation_config
                /\ g_last' = [op |-> "generate_with_config", args |-> args,
                              was_initialized |-> FALSE, ret |-> NotInitializedError]
           ELSE /\ generation_config' = CustomConfig(generation_config, temperature, max_output_tokens)
                /\ g_sent' = Append(g_sent,
                       [api |-> "generate_content", content |-> prompt,
                        generation_config |-> CustomConfig(generation_config, temperature,
                                                           max_output_tokens)])
                /\ g_last' = [op |-> "generate_with_config", args |-> args,
                              was_initialized |-> TRUE,
                              ret |-> IF outcome \in {Raises, TextRaises}
                                      THEN "Error: Error generating response with custom config: "
                                           \o ApiError
                                      ELSE outcome]
    /\ UNCHANGED <<g_initialized, execVars, loopVars, matchVars, handlerVars, clientVars>>

\* GeminiAPIHandler.generate_with_config(prompt, temperature, max_output_tokens)
GenerateWithConfig(prompt, temperature, max_output_tokens, outcome) ==
    /\ g_calls < MaxGeminiCalls
    /\ g_calls' = g_calls + 1
    /\ LET args == [prompt |-> prompt, temperature |-> temperature,
                    max_output_tokens |-> max_output_tokens]
       IN  IF ~g_initialized
           THEN /\ g_sent' = g_sent
                /\ g_last' = [op |-> "generate_with_config", args |-> args,
                              was_initialized |-> FALSE, ret |-> NotInitializedError]
           ELSE /\ g_sent' = Append(g_sent,
                       [api |-> "generate_content", content |-> prompt,
                        generation_config |-> CustomConfig(generation_config, temperature,
                                                           max_output_tokens)])
                /\ g_last' = [op |-> "generate_with_config", args |-> args,
                              was_initialized |-> TRUE,
                              ret |-> IF outcome \in {Raises, TextRaises}
                                      THEN "Error: Error generating response with custom config: "
                                           \o ApiError
                                      ELSE outcome]
    /\ UNCHANGED <<g_initialized, generation_config, execVars, loopVars,
                   matchVars, handlerVars, clientVars>>

\* mutant: every message triggers a send, whatever its role
SendsAnyRole(msg) == msg.role \in Roles

\* if msg["role"] == "user"
SendsMessage(msg) == msg.role = "user"

\* the for loop of chat_session from message i on; fail_at is the message
\* whose send_message raises (0: none); acc is [sent, response, raised]
RECURSIVE ChatLoop(_, _, _, _)
ChatLoop(messages, i, fail_at, acc) ==
    IF i > Len(messages) THEN acc
    ELSE IF SendsMessage(messages[i])
    THEN LET request == [api |-> "send_message", content |-> messages[i].content,
                         generation_config |-> NoneDict]
         IN  IF i = fail_at
             THEN [acc EXCEPT !.sent = Append(@, request), !.raised = TRUE]
             ELSE ChatLoop(messages, i + 1, fail_at,
                           [acc EXCEPT !.sent = Append(@, request),
                                       !.response = ReplyTo(messages[i].content)])
    ELSE ChatLoop(messages, i + 1, fail_at, acc)

\* GeminiAPIHandler.chat_session(messages); fail_at: the message whose send
\* raises (0: none, -1: start_chat raises); text_raises: reading .text of
\* the last response raises
ChatSession(messages, fail_at, text_raises) ==
    /\ g_calls < MaxGeminiCalls
    /\ g_calls' = g_calls + 1
    /\ LET call == [op |-> "chat_session", args |-> [messages |-> messages],
                    was_initialized |-> g_initialized, first |-> Len(g_sent) + 1,
                    fail_at |-> fail_at, text_raises |-> text_raises]
           loop == ChatLoop(messages, 1, fail_at, [sent |-> <<>>, response |-> None, raised |-> FALSE])
           error == "Error: Error in chat session: " \o ApiError
       IN  IF ~g_initialized
           THEN /\ g_sent' = g_sent
                /\ g_last' = call @@ [ret |-> NotInitializedError]
           ELSE IF fail_at = -1
           THEN /\ g_sent' = g_sent
                /\ g_last' = call @@ [ret |-> error]
           ELSE /\ g_sent' = g_sent \o loop.sent
                /\ g_last' = call @@ [ret |-> IF loop.raised THEN error
                                              ELSE IF loop.response = None THEN NoChatResponse
                                              ELSE IF text_raises THEN error
                                              ELSE loop.response]
    /\ UNCHANGED <<g_initialized, generation_config, execVars, loopVars,
                   matchVars, handlerVars, clientVars>>

NextGemini ==
    \/ \E ok \in BOOLEAN : Initialize(ok) /\ UNCHANGED <<execVars, loopVars>>
    \/ \E prompt \in Prompts, outcome \in ModelOutcomes :
          GenerateResponse(prompt, outcome) /\ UNCHANGED <<execVars, loopVars>>
    \/ \E prompt \in Prompts, temperature \in Temperatures,
          max_output_tokens \in MaxOutputTokens, outcome \in ModelOutcomes :
          GenerateWithConfig(prompt, temperature, max_output_tokens, outcome)
    \/ \E messages \in MessageLists, fail_at \in -1..MaxMessages, text_raises \in BOOLEAN :
          fail_at <= Len(messages) /\ ChatSession(messages, fail_at, text_raises)

SpecGemini == InitGemini /\ [][NextGemini]_vars

(***************************************************************************)
(* Properties of the hosted-model adapter (checked under SpecGemini).      *)
(***************************************************************************)
\* the calls into the model made by the last adapter call
SentByLastCall == SubSeq(g_sent, g_last.first, Len(g_sent))

\* C21: generate_with_config never changes the adapter's default sampling
\* parameters, whatever overrides it is given: an initialized adapter always
\* holds the original defaults, a call without overrides sends them, and the
\* temperature sent with a call is the override clamped into [0.0, 1.0].
C21_DefaultsUnchanged ==
    /\ [](g_initialized => generation_config = DefaultGenerationConfig)
    /\ [][(g_calls' # g_calls /\ g_last'.op = "generate_with_config")
          => /\ generation_config' = generation_config
             /\ g_initialized' = g_initialized
             /\ IF ~g_initialized THEN g_sent' = g_sent
                ELSE /\ Len(g_sent') = Len(g_sent) + 1
                     /\ SubSeq(g_sent', 1, Len(g_sent)) = g_sent
                     /\ LET sent == g_sent'[Len(g_sent')].generation_config
                            t == g_last'.args.temperature
                            n == g_last'.args.max_output_tokens
                        IN  /\ sent.temperature \in 0..10
                            /\ sent.temperature =
                                  (IF t = <<>> THEN DefaultGenerationConfig.temperature
                                   ELSE IF t[1] < 0 THEN 0
                                   ELSE IF t[1] > 10 THEN 10
                                   ELSE t[1])
                            /\ sent.max_output_tokens =
                                  (IF n = <<>> THEN DefaultGenerationConfig.max_output_tokens
                                   ELSE n[1])
                            /\ sent.top_p = DefaultGenerationConfig.top_p
                            /\ sent.top_k = DefaultGenerationConfig.top_k]_vars

\* a call without overrides sent the defaults after a call whose temperature
\* override was above the range and was sent clamped
C21_Witness ==
    /\ g_last.op = "generate_with_config"
    /\ g_last.args.temperature = <<>>
    /\ g_last.args.max_output_tokens = <<>>
    /\ Len(g_sent) = 2
    /\ g_sent[1].generation_config # NoneDict
    /\ g_sent[1].generation_config.temperature = 10
    /\ g_sent[1].generation_config.max_output_tokens = 2048
    /\ g_sent[2].generation_config = DefaultGenerationConfig
    /\ generation_config = DefaultGenerationConfig

\* the contents of the messages whose role is "user", in list order
RECURSIVE UserContents(_)
UserContents(messages) ==
    IF messages = <<>> THEN <<>>
    ELSE (IF Head(messages).role = "user" THEN <<Head(messages).content>> ELSE <<>>)
         \o UserContents(Tail(messages))

\* the contents of the send_message calls of the last adapter call
SentContents == [i \in 1..Len(SentByLastCall) |-> SentByLastCall[i].content]

\* a step of the last chat_session call raised: start_chat, the send of a
\* message that is sent, or reading the text of the last response
ChatFailed ==
    \/ g_last.fail_at = -1
    \/ g_last.fail_at >= 1 /\ g_last.args.messages[g_last.fail_at].role = "user"
    \/ g_last.text_raises /\ UserContents(g_last.args.messages) # <<>>

\* C22 as stated: chat_session on an initialized adapter sends exactly one
\* request per "user" message, in list order, and none for the other
\* messages, and returns the response text of the last user message, or the
\* fixed no-response string when there is no user message; uninitialized, it
\* returns the fixed "Error: API not initialized" string and sends nothing.
C22_ChatSendsPerUserMessage ==
    g_last.op = "chat_session"
       => LET users == UserContents(g_last.args.messages)
          IN  IF g_last.was_initialized
              THEN /\ SentContents = users
                   /\ \A i \in 1..Len(SentByLastCall) : SentByLastCall[i].api = "send_message"
                   /\ g_last.ret = (IF users = <<>> THEN NoChatResponse
                                    ELSE ReplyTo(users[Len(users)]))
              ELSE /\ SentByLastCall = <<>>
                   /\ g_last.ret = NotInitializedError

\* C22 amended: the same, as long as no step of the call raises; when
\* start_chat, a send or the reading of the response text raises, the
\* requests sent are those of the user messages up to and including the one
\* whose send raised, in list order, none is sent after it, and the call
\* returns an "Error: "-prefixed string.
C22_ChatSendsUntilFailure ==
    g_last.op = "chat_session"
       => LET users == UserContents(g_last.args.messages)
          IN  IF ~g_last.was_initialized
              THEN /\ SentByLastCall = <<>>
                   /\ g_last.ret = NotInitializedError
              ELSE /\ \A i \in 1..Len(SentByLastCall) : SentByLastCall[i].api = "send_message"
                   /\ IF ChatFailed
                      THEN /\ IsErrorString(g_last.ret)
                           /\ Len(SentContents) <= Len(users)
                           /\ SentContents = SubSeq(users, 1, Len(SentContents))
                           /\ SentContents =
                                 (IF g_last.fail_at = -1 THEN <<>>
                                  ELSE IF g_last.fail_at >= 1
                                          /\ g_last.args.messages[g_last.fail_at].role = "user"
                                  THEN UserContents(SubSeq(g_last.args.messages, 1, g_last.fail_at))
                                  ELSE users)
                      ELSE /\ SentContents = users
                           /\ g_last.ret = (IF users = <<>> THEN NoChatResponse
                                            ELSE ReplyTo(users[Len(users)]))

\* a conversation user, model, user was sent as two requests in order and
\* the reply to the last user message was returned
C22_Witness ==
    /\ g_last.op = "chat_session"
    /\ g_last.was_initialized
    /\ ~ChatFailed
    /\ Len(g_last.args.messages) = 3
    /\ g_last.args.messages[2].role = "model"
    /\ SentContents = <<MessageContent(1), MessageContent(3)>>
    /\ g_last.ret = ReplyTo(MessageContent(3))

(***************************************************************************)
(* The interactive loops: run_interactive_mode of cli.py ("cli") and       *)
(* run_interactive_session of interactive/prompt.py ("prompt").  One       *)
(* action per input() call together with everything the loop does until    *)
(* it blocks in the next input() or returns.  Standard input is a file or  *)
(* a pipe: once it is exhausted every later input() raises EOFError.       *)
(***************************************************************************)
MaxReads == 3

\* what input() delivers besides a line: the two exceptions it raises
Interrupt == "<KeyboardInterrupt>"
EndOfInput == "<EOFError>"

\* the command lines typed that are not handled by the loop itself
LoopTexts == {"cut the clip at current position", "do something completely different"}

\* what the model answers to the interpretation prompt
LoopOutcomes == {"cut the clip at current position", "Mock response", Raises}

\* the prompt built around the user's input
InterpretPrompt(user_input) == "interpret this user request: " \o user_input

\* the executor as constructed by the command line entry point
ExecutorConstructed ==
    /\ history = <<>>
    /\ feedback_enabled \in BOOLEAN
    /\ commands = RegisteredCommands
    /\ CatalogIdle
    /\ timeline \in {"present", "absent", "raises"}
    /\ last_result = NoneDict
    /\ last_feedback = None
    /\ calls = <<>>
    /\ execute_calls = 0
    /\ binding_calls = 0
    /\ last_op = "none"

InitLoop ==
    /\ MatchIdle
    /\ HandlerIdle
    /\ ClientIdle
    /\ ExecutorConstructed
    /\ GeminiConstructed
    /\ loop_impl \in {"cli", "prompt"}
    /\ loop_pc = "command"
    /\ exit_status = -1
    /\ stdin_eof = FALSE
    /\ reads = 0
    /\ last_read = [at |-> "none", got |-> "none"]
    /\ ai_interpretation = None

\* the input() call the loop is blocked in delivers got
Read(at, got) ==
    /\ loop_pc = at
    /\ reads < MaxReads
    /\ stdin_eof => got = EndOfInput
    /\ reads' = reads + 1
    /\ last_read' = [at |-> at, got |-> got]
    /\ stdin_eof' = (stdin_eof \/ got = EndOfInput)
    /\ UNCHANGED loop_impl

\* return 0
LoopReturn(status) ==
    /\ loop_pc' = "returned"
    /\ exit_status' = status
    /\ ai_interpretation' = None

\* the next iteration blocks in input() for a command
LoopContinue ==
    /\ loop_pc' = "command"
    /\ ai_interpretation' = None
    /\ UNCHANGED exit_status

\* KeyboardInterrupt while reading a command: both loops return 0
LoopInterrupt ==
    /\ Read("command", Interrupt)
    /\ LoopReturn(0)
    /\ UNCHANGED <<execVars, geminiVars, matchVars, handlerVars, clientVars>>

\* EOFError while reading a command: prompt.py returns 0 (lines 58-60);
\* cli.py has no EOFError clause, its `except Exception` (lines 263-265)
\* logs the error and the while loop goes on
LoopEndOfInput ==
    /\ Read("command", EndOfInput)
    /\ IF loop_impl = "prompt" THEN LoopReturn(0) ELSE LoopContinue
    /\ UNCHANGED <<execVars, geminiVars, matchVars, handlerVars, clientVars>>

\* exit or quit
LoopExit(line) ==
    /\ line \in {"exit", "quit"}
    /\ Read("command", line)
    /\ LoopReturn(0)
    /\ UNCHANGED <<execVars, geminiVars, matchVars, handlerVars, clientVars>>

\* help and analyze are answered by the loop itself (an error of the
\* analyzer is caught) and the loop continues
LoopBuiltin(line) ==
    /\ line \in {"help", "analyze"}
    /\ Read("command", line)
    /\ LoopContinue
    /\ UNCHANGED <<execVars, geminiVars, matchVars, handlerVars, clientVars>>

\* cli.py, lines 216-225: the command is executed and was understood, or the
\* adapter is not initialized
LoopCommandCli(line) ==
    /\ loop_impl = "cli"
    /\ Read("command", line)
    /\ ExecuteFromText(line)
    /\ ~(StrContains("Could not understand command", DictGet(last_result', "message", ""))
         /\ g_initialized)
    /\ LoopContinue
    /\ UNCHANGED geminiVars

\* cli.py, lines 216-247: the command was not understood, the adapter is
\* asked for an interpretation and the loop blocks in the second input()
LoopCommandCliAsksAI(line, outcome) ==
    /\ loop_impl = "cli"
    /\ Read("command", line)
    /\ ExecuteFromText(line)
    /\ StrContains("Could not understand command", DictGet(last_result', "message", ""))
    /\ g_initialized
    /\ GenerateResponse(InterpretPrompt(line), outcome)
    /\ loop_pc' = "confirm"
    /\ ai_interpretation' = g_last'.ret
    /\ UNCHANGED exit_status

\* cli.py, lines 247-258: the answer to "Try this command? (y/n)".
\* KeyboardInterrupt passes the inner `except Exception` and reaches the
\* outer clause; EOFError is caught by the inner one.
LoopConfirm(got) ==
    /\ loop_impl = "cli"
    /\ Read("confirm", got)
    /\ IF got = Interrupt
       THEN LoopReturn(0) /\ UNCHANGED execVars
       ELSE IF got = "y"
       THEN ExecuteFromText(ai_interpretation) /\ LoopContinue
       ELSE LoopContinue /\ UNCHANGED execVars
    /\ UNCHANGED <<geminiVars, matchVars, handlerVars, clientVars>>

\* prompt.py, lines 100-103: the adapter is not initialized, the command is
\* executed directly
LoopCommandPrompt(line) ==
    /\ loop_impl = "prompt"
    /\ ~g_initialized
    /\ Read("command", line)
    /\ ExecuteFromText(line)
    /\ LoopContinue
    /\ UNCHANGED geminiVars

\* prompt.py, lines 104-122: the adapter is asked first; execute_from_text
\* is then called with a keyword it does not take, the TypeError is caught
\* by the except clause and nothing is executed
LoopCommandPromptAI(line, outcome) ==
    /\ loop_impl = "prompt"
    /\ g_initialized
    /\ Read("command", line)
    /\ GenerateResponse(InterpretPrompt(line), outcome)
    /\ LoopContinue
    /\ UNCHANGED execVars

NextLoop ==
    \/ LoopInterrupt
    \/ LoopEndOfInput
    \/ \E line \in {"exit", "quit"} : LoopExit(line)
    \/ \E line \in {"help", "analyze"} : LoopBuiltin(line)
    \/ \E line \in LoopTexts : LoopCommandCli(line)
    \/ \E line \in LoopTexts, outcome \in LoopOutcomes : LoopCommandCliAsksAI(line, outcome)
    \/ \E got \in {"y", "n", Interrupt, EndOfInput} : LoopConfirm(got)
    \/ \E line \in LoopTexts : LoopCommandPrompt(line)
    \/ \E line \in LoopTexts, outcome \in LoopOutcomes : LoopCommandPromptAI(line, outcome)

SpecLoop == InitLoop /\ [][NextLoop]_vars

\* C23: when the input() that reads the next command receives an interrupt
\* or end-of-input, the loop terminates and returns exit status 0: it neither
\* goes on iterating nor returns another status.
C23_InterruptOrEofExitsZero ==
    [][(reads' = reads + 1 /\ last_read'.at = "command"
        /\ last_read'.got \in {Interrupt, EndOfInput})
       => (loop_pc' = "returned" /\ exit_status' = 0)]_vars

====
